---- MODULE Spec2Model ----
(***************************************************************************)
(* State-machine model of the sliding-window aggregation engine of         *)
(* gmc-geiger-mqtt (MovingAverageAggregator) and of the value types it     *)
(* works on.  Timestamps are whole seconds; a timedelta is a whole number  *)
(* of seconds.  An Optional value is a sequence of length 0 (None) or 1.   *)
(* A float that the code obtains by dividing or multiplying integers is    *)
(* kept as the exact fraction [num, den].                                   *)
(***************************************************************************)
EXTENDS Integers, Sequences, FiniteSets, TLC

\* ------------------------------------------------------------------ bounds
MaxTime == 2            \* timestamps are 0..MaxTime seconds
MaxLen == 3             \* add_reading is not called on a buffer this long
MaxWindow == 1          \* window_seconds is at most this
MaxInterval == 1        \* interval_seconds is 0..MaxInterval
MaxTestSamples == 4     \* samples the one-second-spacing driver feeds
MaxPolls == 2           \* readings the service loop polls

Times == 0..MaxTime
\* counts fed to the engine: they enter the statistics only, never a branch
Cpms == {0, 3}
Windows == (0 - 1)..MaxWindow
Intervals == 0..MaxInterval

\* conversion_factor default 0.0065 = 65 / 10000
FactorNum == 65
FactorDen == 10000

VARIABLES
    window_seconds,          \* MovingAverageAggregator.window_seconds
    samples,                 \* MovingAverageAggregator._samples (deque, left = front)
    last_aggregation_time,   \* MovingAverageAggregator._last_aggregation_time
    op,                      \* the call that ran last: its arguments, result and log count
    test_i,                  \* number of samples a driver has fed
    latest,                  \* timestamp of the sample a driver fed last (Optional)
    emitted,                 \* history: argument of the last mark_published since
                             \* construction or clear (Optional)
    pc,                      \* service_mode: the statement of the main loop to run next
    loop_reading,            \* service_mode: reading (Optional)
    reading_count,           \* service_mode: reading_count
    aggregated,              \* service_mode: aggregated (Optional)
    aggregation_interval,    \* service_mode: aggregation_interval
    shutdown_requested,      \* main.shutdown_requested
    connected,               \* MQTTClient._connected
    clock,                   \* datetime.now() as get_cpm read it last
    calls,                   \* history: the calls of the current loop iteration
    ref,                     \* history: buffer and gate of a run of the same polls
                             \* in which every publish succeeds
    agg_pub,                 \* history: reading timestamp of the last aggregate handed
                             \* to publish_aggregated (Optional)
    in_order,                \* history: no reading polled so far is earlier than the
                             \* one polled before it
    cleanup,                 \* history: the calls of the finally block so far
    exit_code,               \* service_mode: the value returned (Optional)
    retained,                \* history: topic -> payload last accepted with retain=True
    homeassistant_prefix,    \* MQTTConfig.homeassistant_prefix
    device_id,               \* MQTTPublisher.device_id, HomeAssistantDiscovery.device_id
    serial,                  \* GMCDevice.serial: None, or the port with its is_open
    will,                    \* the last will the paho client was given (Optional)
    publisher,               \* service_mode: publisher (Optional)
    mqtt_client,             \* service_mode: mqtt_client (Optional)
    device,                  \* service_mode: device (Optional)
    returning,               \* service_mode: the value of a return statement that
                             \* waits for the finally block (Optional)
    client                   \* MQTTClient._client: None, or the paho client with the
                             \* state of its network loop

engine == <<window_seconds, samples, last_aggregation_time>>
driver == <<test_i, latest>>
session == <<serial, will, publisher, mqtt_client, device, returning, client>>
service == <<pc, loop_reading, reading_count, aggregated, aggregation_interval,
             shutdown_requested, connected, clock, calls, ref, agg_pub, in_order,
          cleanup, exit_code, retained, homeassistant_prefix, device_id,
             serial, will, publisher, mqtt_client, device, returning, client>>
vars == <<window_seconds, samples, last_aggregation_time, op, test_i, latest, emitted,
          pc, loop_reading, reading_count, aggregated, aggregation_interval,
          shutdown_requested, connected, clock, calls, ref, agg_pub, in_order,
          cleanup, exit_code, retained, homeassistant_prefix, device_id,
          serial, will, publisher, mqtt_client, device, returning, client>>

None == <<>>
Some(x) == <<x>>

\* ------------------------------------------------------------- value types
Reading(cpm, timestamp) == [cpm |-> cpm, timestamp |-> timestamp]

Readings == {Reading(c, t) : c \in Cpms, t \in Times}

\* mutant: no validation
post_init_unchecked(self) == "ok"

\* mutant: a count of zero is rejected too (<= for <)
post_init_rejects_zero(self) == IF self.cpm <= 0 THEN "ValueError" ELSE "ok"

\* Reading.__post_init__: the exception it raises, or "ok"
post_init(self) == IF self.cpm < 0 THEN "ValueError" ELSE "ok"

\* mutant: the product is rounded to two decimals, as to_dict rounds cpm_avg
to_usv_per_hour_rounded(self, conversion_factor) ==
    [num |-> (2 * self.cpm * conversion_factor.num * 100 + conversion_factor.den)
                \div (2 * conversion_factor.den),
     den |-> 100]

\* Reading.to_usv_per_hour: self.cpm * conversion_factor, the factor and the
\* product as exact fractions
to_usv_per_hour(self, conversion_factor) ==
    [num |-> self.cpm * conversion_factor.num, den |-> conversion_factor.den]

AggregatedReading(cpm_avg, cpm_min, cpm_max, usv_h_avg, window, sample_count, timestamp, lst) ==
    [cpm_avg |-> cpm_avg, cpm_min |-> cpm_min, cpm_max |-> cpm_max,
     usv_h_avg |-> usv_h_avg, window_seconds |-> window,
     sample_count |-> sample_count, timestamp |-> timestamp, samples |-> lst]

\* ------------------------------------------------------- helpers (builtins)
RECURSIVE sum(_)
sum(values) == IF values = <<>> THEN 0 ELSE Head(values) + sum(Tail(values))

RECURSIVE min(_)
min(values) ==
    IF Len(values) = 1 THEN Head(values)
    ELSE LET m == min(Tail(values)) IN IF Head(values) <= m THEN Head(values) ELSE m

RECURSIVE max(_)
max(values) ==
    IF Len(values) = 1 THEN Head(values)
    ELSE LET m == max(Tail(values)) IN IF Head(values) >= m THEN Head(values) ELSE m

\* ---------------------------------------------------------------- the engine
EngineInit ==
    /\ window_seconds \in Windows
    /\ samples = <<>>
    /\ last_aggregation_time = None
    /\ op = [name |-> "init"]

RECURSIVE popleft_while_older(_, _)
popleft_while_older(deque, cutoff_time) ==
    IF deque # <<>> /\ Head(deque).timestamp < cutoff_time
    THEN popleft_while_older(Tail(deque), cutoff_time)
    ELSE deque

\* mutant: the cutoff is taken in minutes, timedelta(minutes=window_seconds)
clean_old_samples_minutes(deque, current_time) ==
    popleft_while_older(deque, current_time - 60 * window_seconds)

\* mutant: every stale entry is dropped, wherever it stands in the buffer
clean_old_samples_filter(deque, current_time) ==
    LET cutoff_time == current_time - window_seconds
    IN SelectSeq(deque, LAMBDA r : r.timestamp >= cutoff_time)

\* mutant: an entry exactly at the cutoff is evicted too (<= for <)
RECURSIVE popleft_while_not_newer(_, _)
popleft_while_not_newer(deque, cutoff_time) ==
    IF deque # <<>> /\ Head(deque).timestamp <= cutoff_time
    THEN popleft_while_not_newer(Tail(deque), cutoff_time)
    ELSE deque

clean_old_samples_inclusive(deque, current_time) ==
    popleft_while_not_newer(deque, current_time - window_seconds)

clean_old_samples(deque, current_time) ==
    LET cutoff_time == current_time - window_seconds
    IN popleft_while_older(deque, cutoff_time)

\* mutant: the sample is put at the front of the deque (appendleft)
add_reading_at_front(reading) ==
    /\ Len(samples) < MaxLen
    /\ LET appended == <<reading>> \o samples
           cleaned == clean_old_samples(appended, reading.timestamp)
       IN /\ samples' = cleaned
          /\ op' = [name |-> "add_reading", reading |-> reading,
                    removed |-> Len(appended) - Len(cleaned)]
    /\ UNCHANGED <<window_seconds, last_aggregation_time>>

\* mutant: a sample earlier than the tail of the buffer is dropped
add_reading_rejecting(reading) ==
    /\ Len(samples) < MaxLen
    /\ LET late == IF samples = <<>> THEN FALSE
                   ELSE reading.timestamp < samples[Len(samples)].timestamp
           appended == IF late THEN samples ELSE Append(samples, reading)
           cleaned == clean_old_samples(appended, reading.timestamp)
       IN /\ samples' = cleaned
          /\ op' = [name |-> "add_reading", reading |-> reading,
                    removed |-> Len(appended) - Len(cleaned)]
    /\ UNCHANGED <<window_seconds, last_aggregation_time>>

add_reading(reading) ==
    /\ Len(samples) < MaxLen
    /\ LET appended == Append(samples, reading)
           cleaned == clean_old_samples(appended, reading.timestamp)
       IN /\ samples' = cleaned
          /\ op' = [name |-> "add_reading", reading |-> reading,
                    removed |-> Len(appended) - Len(cleaned)]
    /\ UNCHANGED <<window_seconds, last_aggregation_time>>

\* mutant: a single sample is not enough for an aggregate
aggregate_needs_two(deque, window) ==
    IF Len(deque) <= 1 THEN None
    ELSE LET cpm_values == [i \in 1..Len(deque) |-> deque[i].cpm]
             cpm_avg == [num |-> sum(cpm_values), den |-> Len(cpm_values)]
             usv_h_avg == [num |-> cpm_avg.num * FactorNum, den |-> cpm_avg.den * FactorDen]
         IN Some(AggregatedReading(cpm_avg, min(cpm_values), max(cpm_values), usv_h_avg,
                                   window, Len(deque), deque[Len(deque)].timestamp, deque))

\* mutant: the aggregate is stamped with the oldest entry, self._samples[0]
aggregate_oldest_timestamp(deque, window) ==
    IF deque = <<>> THEN None
    ELSE LET cpm_values == [i \in 1..Len(deque) |-> deque[i].cpm]
             cpm_avg == [num |-> sum(cpm_values), den |-> Len(cpm_values)]
             usv_h_avg == [num |-> cpm_avg.num * FactorNum, den |-> cpm_avg.den * FactorDen]
         IN Some(AggregatedReading(cpm_avg, min(cpm_values), max(cpm_values), usv_h_avg,
                                   window, Len(deque), deque[1].timestamp, deque))

aggregate(deque, window) ==
    IF deque = <<>> THEN None
    ELSE LET cpm_values == [i \in 1..Len(deque) |-> deque[i].cpm]
             cpm_avg == [num |-> sum(cpm_values), den |-> Len(cpm_values)]
             usv_h_avg == [num |-> cpm_avg.num * FactorNum, den |-> cpm_avg.den * FactorDen]
         IN Some(AggregatedReading(cpm_avg, min(cpm_values), max(cpm_values), usv_h_avg,
                                   window, Len(deque), deque[Len(deque)].timestamp, deque))

\* mutant: the statistics are computed by popping the deque empty
get_aggregated_draining ==
    /\ op' = [name |-> "get_aggregated", ret |-> aggregate(samples, window_seconds)]
    /\ samples' = <<>>
    /\ UNCHANGED <<window_seconds, last_aggregation_time>>

\* mutant: returning an aggregate records its timestamp as the emission
get_aggregated_marking ==
    /\ op' = [name |-> "get_aggregated", ret |-> aggregate(samples, window_seconds)]
    /\ last_aggregation_time' =
           IF samples = <<>> THEN last_aggregation_time
           ELSE Some(samples[Len(samples)].timestamp)
    /\ UNCHANGED <<window_seconds, samples>>

get_aggregated ==
    /\ op' = [name |-> "get_aggregated", ret |-> aggregate(samples, window_seconds)]
    /\ UNCHANGED engine

\* mutant: a gate never set counts as set at time 0
should_publish_epoch(current_time, interval_seconds) ==
    /\ op' = [name |-> "should_publish", current_time |-> current_time,
              interval_seconds |-> interval_seconds,
              ret |-> LET elapsed == current_time -
                              (IF last_aggregation_time = None THEN 0
                               ELSE last_aggregation_time[1])
                      IN elapsed >= interval_seconds]
    /\ UNCHANGED engine

\* mutant: exactly interval_seconds elapsed does not qualify (> for >=)
should_publish_strict(current_time, interval_seconds) ==
    /\ op' = [name |-> "should_publish", current_time |-> current_time,
              interval_seconds |-> interval_seconds,
              ret |-> IF last_aggregation_time = None THEN TRUE
                      ELSE LET elapsed == current_time - last_aggregation_time[1]
                           IN elapsed > interval_seconds]
    /\ UNCHANGED engine

\* mutant: a True answer is recorded as the emission
should_publish_marking(current_time, interval_seconds) ==
    LET ret == IF last_aggregation_time = None THEN TRUE
               ELSE LET elapsed == current_time - last_aggregation_time[1]
                    IN elapsed >= interval_seconds
    IN /\ op' = [name |-> "should_publish", current_time |-> current_time,
                 interval_seconds |-> interval_seconds, ret |-> ret]
       /\ last_aggregation_time' =
              IF ret THEN Some(current_time) ELSE last_aggregation_time
       /\ UNCHANGED <<window_seconds, samples>>

should_publish(current_time, interval_seconds) ==
    /\ op' = [name |-> "should_publish", current_time |-> current_time,
              interval_seconds |-> interval_seconds,
              ret |-> IF last_aggregation_time = None THEN TRUE
                      ELSE LET elapsed == current_time - last_aggregation_time[1]
                           IN elapsed >= interval_seconds]
    /\ UNCHANGED engine

\* mutant: an emission is recorded only while the window holds samples
mark_published_when_nonempty(timestamp) ==
    /\ last_aggregation_time' =
           IF samples = <<>> THEN last_aggregation_time ELSE Some(timestamp)
    /\ op' = [name |-> "mark_published", timestamp |-> timestamp]
    /\ UNCHANGED <<window_seconds, samples>>

\* mutant: the gate is only ever moved forward
mark_published_forward_only(timestamp) ==
    /\ last_aggregation_time' =
           IF last_aggregation_time # None /\ last_aggregation_time[1] > timestamp
           THEN last_aggregation_time ELSE Some(timestamp)
    /\ op' = [name |-> "mark_published", timestamp |-> timestamp]
    /\ UNCHANGED <<window_seconds, samples>>

mark_published(timestamp) ==
    /\ last_aggregation_time' = Some(timestamp)
    /\ op' = [name |-> "mark_published", timestamp |-> timestamp]
    /\ UNCHANGED <<window_seconds, samples>>

get_sample_count ==
    /\ op' = [name |-> "get_sample_count", ret |-> Len(samples)]
    /\ UNCHANGED engine

\* mutant: the age is the span between the earliest and the latest timestamp held
get_window_age_span ==
    /\ op' = [name |-> "get_window_age",
              ret |-> IF samples = <<>> THEN None
                      ELSE LET stamps == [i \in 1..Len(samples) |-> samples[i].timestamp]
                           IN Some(max(stamps) - min(stamps))]
    /\ UNCHANGED engine

\* mutant: no check for an empty deque, so self._samples[0] raises IndexError
get_window_age_unguarded ==
    /\ op' = IF samples = <<>>
             THEN [name |-> "get_window_age", raised |-> "IndexError"]
             ELSE [name |-> "get_window_age",
                   ret |-> Some(samples[Len(samples)].timestamp - samples[1].timestamp)]
    /\ UNCHANGED engine

get_window_age ==
    /\ op' = [name |-> "get_window_age",
              ret |-> IF samples = <<>> THEN None
                      ELSE Some(samples[Len(samples)].timestamp - samples[1].timestamp)]
    /\ UNCHANGED engine

\* mutant: the deque is emptied and the gate is left as it was
clear_samples_only ==
    /\ samples' = <<>>
    /\ op' = [name |-> "clear", removed |-> Len(samples)]
    /\ UNCHANGED <<window_seconds, last_aggregation_time>>

clear ==
    /\ samples' = <<>>
    /\ last_aggregation_time' = None
    /\ op' = [name |-> "clear", removed |-> Len(samples)]
    /\ UNCHANGED window_seconds

\* Reading(cpm=cpm, timestamp=timestamp): the dataclass sets the fields, then
\* __post_init__ runs; when it raises, the caller gets no object
construct_reading(cpm, timestamp) ==
    LET self == Reading(cpm, timestamp)
        outcome == post_init(self)
    IN /\ op' = [name |-> "Reading", cpm |-> cpm, timestamp |-> timestamp,
                 raised |-> outcome # "ok",
                 ret |-> IF outcome = "ok" THEN Some(self) ELSE None]
       /\ UNCHANGED engine

\* ------------------------------------------- any caller, any order of calls
\* no service loop is running
ServiceIdle ==
    /\ pc = "none"
    /\ loop_reading = None
    /\ reading_count = 0
    /\ aggregated = None
    /\ aggregation_interval = 0
    /\ shutdown_requested = FALSE
    /\ connected = FALSE
    /\ clock = 0
    /\ calls = <<>>
    /\ ref = <<<<>>, None>>
    /\ agg_pub = None
    /\ in_order = TRUE
    /\ cleanup = <<>>
    /\ exit_code = None
    /\ retained = <<>>
    /\ homeassistant_prefix = "homeassistant"
    /\ device_id = "gmc_800"
    /\ serial = None
    /\ will = None
    /\ publisher = None
    /\ mqtt_client = None
    /\ device = None
    /\ returning = None
    /\ client = None

Init ==
    /\ EngineInit
    /\ test_i = 0
    /\ latest = None
    /\ emitted = None
    /\ ServiceIdle

Next ==
    \/ \E reading \in Readings : add_reading(reading) /\ UNCHANGED <<driver, emitted, service>>
    \/ get_aggregated /\ UNCHANGED <<driver, emitted, service>>
    \/ \E t \in Times, i \in Intervals : should_publish(t, i) /\ UNCHANGED <<driver, emitted, service>>
    \/ \E t \in Times : mark_published(t) /\ emitted' = Some(t) /\ UNCHANGED <<driver, service>>
    \/ get_sample_count /\ UNCHANGED <<driver, emitted, service>>
    \/ get_window_age /\ UNCHANGED <<driver, emitted, service>>
    \/ clear /\ emitted' = None /\ UNCHANGED <<driver, service>>

Spec == Init /\ [][Next]_vars

\* ------------------- a caller that feeds strictly increasing timestamps
FeedIncreasing ==
    \E reading \in Readings :
        /\ IF latest = None THEN TRUE ELSE reading.timestamp > latest[1]
        /\ add_reading(reading)
        /\ latest' = Some(reading.timestamp)
        /\ test_i' = test_i + 1
        /\ UNCHANGED <<emitted, service>>

NextIncreasing ==
    \/ FeedIncreasing
    \/ get_aggregated /\ UNCHANGED <<driver, emitted, service>>
    \/ \E t \in Times, i \in Intervals : should_publish(t, i) /\ UNCHANGED <<driver, emitted, service>>
    \/ \E t \in Times : mark_published(t) /\ emitted' = Some(t) /\ UNCHANGED <<driver, service>>
    \/ get_sample_count /\ UNCHANGED <<driver, emitted, service>>
    \/ get_window_age /\ UNCHANGED <<driver, emitted, service>>
    \/ clear /\ emitted' = None /\ UNCHANGED <<driver, service>>

SpecIncreasing == Init /\ [][NextIncreasing]_vars

\* --------- a caller that feeds timestamps that never decrease (a poll loop
\* whose clock does not go back)
FeedNonDecreasing ==
    \E reading \in Readings :
        /\ IF latest = None THEN TRUE ELSE reading.timestamp >= latest[1]
        /\ add_reading(reading)
        /\ latest' = Some(reading.timestamp)
        /\ UNCHANGED <<test_i, emitted, service>>

NextNonDecreasing ==
    \/ FeedNonDecreasing
    \/ get_aggregated /\ UNCHANGED <<driver, emitted, service>>
    \/ \E t \in Times : mark_published(t) /\ emitted' = Some(t) /\ UNCHANGED <<driver, service>>
    \/ get_window_age /\ UNCHANGED <<driver, emitted, service>>
    \/ clear /\ emitted' = None /\ UNCHANGED <<driver, service>>

SpecNonDecreasing == Init /\ [][NextNonDecreasing]_vars

\* ---------- test_old_samples_removed: a fresh engine fed at one-second spacing
FeedSpaced ==
    /\ test_i < MaxTestSamples
    /\ \E cpm \in Cpms, timestamp \in (IF latest = None THEN Times ELSE {latest[1] + 1}) :
        /\ add_reading(Reading(cpm, timestamp))
        /\ latest' = Some(timestamp)
    /\ test_i' = test_i + 1
    /\ UNCHANGED <<emitted, service>>

NextSpaced ==
    \/ FeedSpaced
    \/ get_sample_count /\ UNCHANGED <<driver, emitted, service>>
    \/ get_aggregated /\ UNCHANGED <<driver, emitted, service>>
    \/ get_window_age /\ UNCHANGED <<driver, emitted, service>>

SpecSpaced == Init /\ [][NextSpaced]_vars

\* ------------ a caller that constructs each Reading and ingests what it got
AttemptCpms == Cpms \cup {0 - 1, 0 - 3}

IngestConstructed ==
    /\ op.name = "Reading"
    /\ op.ret # None
    /\ add_reading(op.ret[1])
    /\ UNCHANGED <<driver, emitted, service>>

NextConstruct ==
    \/ \E cpm \in AttemptCpms, t \in Times :
            construct_reading(cpm, t) /\ UNCHANGED <<driver, emitted, service>>
    \/ IngestConstructed
    \/ get_aggregated /\ UNCHANGED <<driver, emitted, service>>
    \/ clear /\ emitted' = None /\ UNCHANGED <<driver, service>>

SpecConstruct == Init /\ [][NextConstruct]_vars

\* ------------------------- a caller that converts readings and aggregates
ConvertCpms == Cpms \cup {1, 100}
Factors == {[num |-> FactorNum, den |-> FactorDen], [num |-> 1, den |-> 100]}

\* reading.to_usv_per_hour(conversion_factor)
call_to_usv_per_hour(reading, conversion_factor) ==
    /\ op' = [name |-> "to_usv_per_hour", reading |-> reading,
              conversion_factor |-> conversion_factor,
              ret |-> to_usv_per_hour(reading, conversion_factor)]
    /\ UNCHANGED engine

NextConvert ==
    \/ \E cpm \in ConvertCpms, t \in Times, factor \in Factors :
            call_to_usv_per_hour(Reading(cpm, t), factor)
               /\ UNCHANGED <<driver, emitted, service>>
    \/ \E reading \in Readings : add_reading(reading) /\ UNCHANGED <<driver, emitted, service>>
    \/ get_aggregated /\ UNCHANGED <<driver, emitted, service>>

SpecConvert == Init /\ [][NextConvert]_vars

\* ------------------------------------------ service_mode: the main loop
config == <<aggregation_interval>>
environment == <<shutdown_requested, connected>>
history == <<ref, agg_pub, in_order>>
epilogue == <<cleanup, exit_code>>
discovery == <<retained, homeassistant_prefix, device_id>>

\* MQTTConfig.get_topic(device_id, subtopic), as its path segments
get_topic(id, subtopic) == <<"topic_prefix", id, subtopic>>

\* MQTTClient.connect: device_id = "gmc800", and the arguments of will_set
last_will ==
    [topic |-> get_topic("gmc800", "availability"), payload |-> "offline",
     qos |-> 1, retain |-> TRUE]

\* service_mode up to the first test of the while condition: device and broker
\* connected, a fresh aggregator, window and interval as configured
ServiceInit ==
    /\ EngineInit
    /\ test_i = 0
    /\ latest = None
    /\ emitted = None
    /\ pc = "while"
    /\ loop_reading = None
    /\ reading_count = 0
    /\ aggregated = None
    /\ aggregation_interval \in Intervals
    /\ shutdown_requested = FALSE
    /\ connected = TRUE
    /\ clock = 0
    /\ calls = <<>>
    /\ ref = <<<<>>, None>>
    /\ agg_pub = None
    /\ in_order = TRUE
    /\ cleanup = <<>>
    /\ exit_code = None
    /\ retained = <<>>
    /\ homeassistant_prefix = "homeassistant"
    /\ device_id = "gmc_800"
    /\ serial = Some([is_open |-> TRUE])
    /\ will = Some(last_will)
    /\ publisher = Some("MQTTPublisher")
    /\ mqtt_client = Some("MQTTClient")
    /\ device = Some("GMCDevice")
    /\ returning = None
    /\ client = Some([loop |-> TRUE])

\* one call of the loop body: what was called, with what, what it returned
\* and the exception it raised ("none" when it returned)
Call(name, arg, ret, raised) == [name |-> name, arg |-> arg, ret |-> ret, raised |-> raised]

\* buffer and gate after one pass of the loop body over `reading`, as
\* add_reading, should_publish, get_aggregated and mark_published leave them
\* when both publish calls return normally
loop_body(state, reading) ==
    LET buffer == clean_old_samples(Append(state[1], reading), reading.timestamp)
        due == IF state[2] = None THEN TRUE
               ELSE reading.timestamp - state[2][1] >= aggregation_interval
    IN <<buffer,
         IF due /\ aggregate(buffer, window_seconds) # None
         THEN Some(reading.timestamp) ELSE state[2]>>

\* MQTTClient.publish, what a call can come to: "MQTTClientError" when it
\* raises (not connected, or the paho client raised), "rc" when the paho
\* client returned a result code other than success, which is logged as a
\* warning before publish returns, "published" when the code was success
client_publish == IF connected THEN {"published", "rc", "MQTTClientError"} ELSE {"MQTTClientError"}

\* signal_handler, on SIGINT or SIGTERM
signal_handler ==
    /\ pc \notin {"none", "return"}
    /\ ~shutdown_requested
    /\ shutdown_requested' = TRUE
    /\ UNCHANGED <<engine, op, driver, emitted, pc, loop_reading, reading_count,
                   aggregated, config, session, connected, clock, calls, history, epilogue,
                   discovery>>

\* MQTTClient._on_connect / _on_disconnect, run by the network thread
on_connection_change ==
    /\ client # None
    /\ client[1].loop
    /\ connected' = ~connected
    /\ UNCHANGED <<engine, op, driver, emitted, pc, loop_reading, reading_count,
                   aggregated, config, session, shutdown_requested, clock, calls, history, epilogue,
                   discovery>>

\* while not shutdown_requested:
service_while ==
    /\ pc = "while"
    /\ pc' = IF shutdown_requested THEN "finally" ELSE "get_cpm"
    /\ calls' = <<>>
    /\ UNCHANGED <<engine, op, driver, emitted, loop_reading, reading_count,
                   aggregated, config, session, environment, clock, history, epilogue,
                   discovery>>

\* reading = device.get_cpm(); reading_count += 1
service_get_cpm(cpm, now) ==
    /\ pc = "get_cpm"
    /\ reading_count < MaxPolls
    /\ loop_reading' = Some(Reading(cpm, now))
    /\ reading_count' = reading_count + 1
    /\ clock' = now
    /\ in_order' = (in_order /\ (reading_count = 0 \/ now >= clock))
    /\ ref' = loop_body(ref, Reading(cpm, now))
    /\ calls' = <<Call("get_cpm", <<>>, Some(Reading(cpm, now)), "none")>>
    /\ pc' = "publish_realtime"
    /\ UNCHANGED <<engine, op, driver, emitted, aggregated, config, session, environment, agg_pub, epilogue,
                   discovery>>

\* mutant: an exception of get_cpm is not caught inside the loop
service_get_cpm_raises_fatal(error) ==
    /\ pc = "get_cpm"
    /\ calls' = <<Call("get_cpm", <<>>, None, error)>>
    /\ pc' = "finally"
    /\ UNCHANGED <<engine, op, driver, emitted, loop_reading, reading_count,
                   aggregated, config, session, environment, clock, history, epilogue,
                   discovery>>

\* mutant: the counter is incremented before the poll
service_get_cpm_raises_counted(error) ==
    /\ pc = "get_cpm"
    /\ reading_count < MaxPolls
    /\ reading_count' = reading_count + 1
    /\ calls' = <<Call("get_cpm", <<>>, None, error)>>
    /\ pc' = "except"
    /\ UNCHANGED <<engine, op, driver, emitted, loop_reading,
                   aggregated, config, session, environment, clock, history, epilogue,
                   discovery>>

\* device.get_cpm() raises: GMCDeviceError from _ensure_connected or
\* _read_response, or any other Exception; reading is not assigned
service_get_cpm_raises(error) ==
    /\ pc = "get_cpm"
    /\ calls' = <<Call("get_cpm", <<>>, None, error)>>
    /\ pc' = "except"
    /\ UNCHANGED <<engine, op, driver, emitted, loop_reading, reading_count,
                   aggregated, config, session, environment, clock, history, epilogue,
                   discovery>>

\* mutant: the exception of a failed publish leaves publish_realtime
service_publish_realtime_raising ==
    /\ pc = "publish_realtime"
    /\ \E outcome \in client_publish :
          /\ calls' = Append(calls, Call("publish_realtime", <<loop_reading[1]>>, outcome, "none"))
          /\ pc' = IF outcome = "published" THEN "add_reading" ELSE "except"
    /\ UNCHANGED <<engine, op, driver, emitted, loop_reading, reading_count,
                   aggregated, config, session, environment, clock, history, epilogue,
                   discovery>>

\* publisher.publish_realtime(reading): the exception of a failed publish is
\* caught and logged inside it
service_publish_realtime ==
    /\ pc = "publish_realtime"
    /\ \E outcome \in client_publish :
          calls' = Append(calls, Call("publish_realtime", <<loop_reading[1]>>, outcome, "none"))
    /\ pc' = "add_reading"
    /\ UNCHANGED <<engine, op, driver, emitted, loop_reading, reading_count,
                   aggregated, config, session, environment, clock, history, epilogue,
                   discovery>>

\* mutant: the polled reading is not ingested
service_add_reading_skipped ==
    /\ pc = "add_reading"
    /\ calls' = Append(calls, Call("add_reading", <<loop_reading[1]>>, None, "none"))
    /\ pc' = "should_publish"
    /\ UNCHANGED <<engine, op, driver, emitted, loop_reading, reading_count, aggregated,
                   config, session, environment, clock, history, epilogue,
                   discovery>>

\* aggregator.add_reading(reading)
service_add_reading ==
    /\ pc = "add_reading"
    /\ add_reading(loop_reading[1])
    /\ calls' = Append(calls, Call("add_reading", <<loop_reading[1]>>, None, "none"))
    /\ pc' = "should_publish"
    /\ UNCHANGED <<driver, emitted, loop_reading, reading_count, aggregated, config, session,
                   environment, clock, history, epilogue,
                   discovery>>

\* mutant: the aggregate is produced whatever should_publish returns
service_should_publish_ignored ==
    /\ pc = "should_publish"
    /\ should_publish(loop_reading[1].timestamp, aggregation_interval)
    /\ calls' = Append(calls, Call("should_publish",
                                   <<loop_reading[1].timestamp, aggregation_interval>>,
                                   op'.ret, "none"))
    /\ pc' = "get_aggregated"
    /\ UNCHANGED <<driver, emitted, loop_reading, reading_count, aggregated, config, session,
                   environment, clock, history, epilogue,
                   discovery>>

\* if aggregator.should_publish(reading.timestamp, aggregation_interval):
service_should_publish ==
    /\ pc = "should_publish"
    /\ should_publish(loop_reading[1].timestamp, aggregation_interval)
    /\ calls' = Append(calls, Call("should_publish",
                                   <<loop_reading[1].timestamp, aggregation_interval>>,
                                   op'.ret, "none"))
    /\ pc' = IF op'.ret THEN "get_aggregated" ELSE "sleep"
    /\ UNCHANGED <<driver, emitted, loop_reading, reading_count, aggregated, config, session,
                   environment, clock, history, epilogue,
                   discovery>>

\* aggregated = aggregator.get_aggregated(); if aggregated:
service_get_aggregated ==
    /\ pc = "get_aggregated"
    /\ get_aggregated
    /\ aggregated' = op'.ret
    /\ calls' = Append(calls, Call("get_aggregated", <<>>, op'.ret, "none"))
    /\ pc' = IF op'.ret # None THEN "publish_aggregated" ELSE "sleep"
    /\ UNCHANGED <<driver, emitted, loop_reading, reading_count, config, session, environment,
                   clock, history, epilogue,
                   discovery>>

\* mutant: an aggregate whose publish failed is not recorded as emitted
service_publish_aggregated_retrying ==
    /\ pc = "publish_aggregated"
    /\ \E outcome \in client_publish :
          /\ calls' = Append(calls, Call("publish_aggregated", <<aggregated[1]>>, outcome, "none"))
          /\ pc' = IF outcome = "MQTTClientError" THEN "sleep" ELSE "mark_published"
    /\ agg_pub' = Some(loop_reading[1].timestamp)
    /\ UNCHANGED <<engine, op, driver, emitted, loop_reading, reading_count,
                   aggregated, config, session, environment, clock, ref, in_order, epilogue,
                   discovery>>

\* publisher.publish_aggregated(aggregated): the exception of a failed publish
\* is caught and logged inside it
service_publish_aggregated ==
    /\ pc = "publish_aggregated"
    /\ \E outcome \in client_publish :
          calls' = Append(calls, Call("publish_aggregated", <<aggregated[1]>>, outcome, "none"))
    /\ agg_pub' = Some(loop_reading[1].timestamp)
    /\ pc' = "mark_published"
    /\ UNCHANGED <<engine, op, driver, emitted, loop_reading, reading_count,
                   aggregated, config, session, environment, clock, ref, in_order, epilogue,
                   discovery>>

\* mutant: the emission is not recorded
service_mark_published_skipped ==
    /\ pc = "mark_published"
    /\ calls' = Append(calls, Call("mark_published", <<loop_reading[1].timestamp>>, None, "none"))
    /\ pc' = "sleep"
    /\ UNCHANGED <<engine, op, driver, emitted, loop_reading, reading_count,
                   aggregated, config, session, environment, clock, history, epilogue,
                   discovery>>

\* aggregator.mark_published(reading.timestamp)
service_mark_published ==
    /\ pc = "mark_published"
    /\ mark_published(loop_reading[1].timestamp)
    /\ emitted' = Some(loop_reading[1].timestamp)
    /\ calls' = Append(calls, Call("mark_published", <<loop_reading[1].timestamp>>, None, "none"))
    /\ pc' = "sleep"
    /\ UNCHANGED <<driver, loop_reading, reading_count, aggregated, config, session,
                   environment, clock, history, epilogue,
                   discovery>>

\* time.sleep(sampling_interval)
service_sleep ==
    /\ pc = "sleep"
    /\ pc' = "while"
    /\ UNCHANGED <<engine, op, driver, emitted, loop_reading, reading_count,
                   aggregated, config, session, environment, clock, calls, history, epilogue,
                   discovery>>

\* except GMCDeviceError / except Exception: log, time.sleep(5.0)
service_except ==
    /\ pc = "except"
    /\ pc' = "while"
    /\ UNCHANGED <<engine, op, driver, emitted, loop_reading, reading_count,
                   aggregated, config, session, environment, clock, calls, history, epilogue,
                   discovery>>

\* finally: if publisher: publisher.shutdown(), which publishes availability
\* "offline" and catches the exception of a failed publish
service_finally ==
    /\ pc = "finally"
    /\ IF publisher # None
       THEN \E outcome \in client_publish :
               cleanup' = Append(cleanup, Call("publisher.shutdown", <<"offline">>, outcome, "none"))
       ELSE cleanup' = cleanup
    /\ pc' = "mqtt_disconnect"
    /\ UNCHANGED <<engine, op, driver, emitted, loop_reading, reading_count,
                   aggregated, config, session, environment, clock, calls, history, exit_code,
                   discovery>>

\* mutant: an exception of mqtt_client.disconnect() ends the finally block
service_mqtt_disconnect_unguarded(raised) ==
    /\ pc = "mqtt_disconnect"
    /\ IF mqtt_client # None
       THEN /\ cleanup' = Append(cleanup, Call("mqtt_client.disconnect", <<>>, None, raised))
            /\ connected' = IF raised = "none" /\ client # None THEN FALSE ELSE connected
            /\ client' = IF client # None THEN Some([loop |-> FALSE]) ELSE client
       ELSE /\ raised = "none"
            /\ UNCHANGED <<cleanup, connected, client>>
    /\ pc' = IF raised = "none" THEN "device_disconnect" ELSE "raise"
    /\ UNCHANGED <<engine, op, driver, emitted, loop_reading, reading_count,
                   aggregated, config, serial, will, publisher, mqtt_client, device,
                   returning, shutdown_requested, clock, calls, history, exit_code,
                   discovery>>

\* if mqtt_client: try: mqtt_client.disconnect() except Exception: log
service_mqtt_disconnect(raised) ==
    /\ pc = "mqtt_disconnect"
    /\ IF mqtt_client # None
       THEN /\ cleanup' = Append(cleanup, Call("mqtt_client.disconnect", <<>>, None, raised))
            /\ connected' = IF raised = "none" /\ client # None THEN FALSE ELSE connected
            /\ client' = IF client # None THEN Some([loop |-> FALSE]) ELSE client
       ELSE /\ raised = "none"
            /\ UNCHANGED <<cleanup, connected, client>>
    /\ pc' = "device_disconnect"
    /\ UNCHANGED <<engine, op, driver, emitted, loop_reading, reading_count,
                   aggregated, config, serial, will, publisher, mqtt_client, device,
                   returning, shutdown_requested, clock, calls, history, exit_code,
                   discovery>>

\* if device: try: device.disconnect() except Exception: log
service_device_disconnect(raised) ==
    /\ pc = "device_disconnect"
    /\ IF device # None
       THEN /\ cleanup' = Append(cleanup, Call("device.disconnect", <<>>, None, raised))
            /\ serial' = IF raised = "none" THEN None ELSE serial
       ELSE /\ raised = "none"
            /\ UNCHANGED <<cleanup, serial>>
    /\ pc' = IF returning = None THEN "return 0" ELSE "return 1"
    /\ UNCHANGED <<engine, op, driver, emitted, loop_reading, reading_count,
                   aggregated, config, will, publisher, mqtt_client, device, returning,
                   client, environment, clock, calls, history, exit_code, discovery>>

\* the return 1 of an except clause, once the finally block has run
service_return_1 ==
    /\ pc = "return 1"
    /\ exit_code' = returning
    /\ pc' = "return"
    /\ UNCHANGED <<engine, op, driver, emitted, loop_reading, reading_count,
                   aggregated, config, session, environment, clock, calls, history, cleanup,
                   discovery>>

\* return 0
service_return ==
    /\ pc = "return 0"
    /\ exit_code' = Some(0)
    /\ pc' = "return"
    /\ UNCHANGED <<engine, op, driver, emitted, loop_reading, reading_count,
                   aggregated, config, session, environment, clock, calls, history, cleanup,
                   discovery>>

Raised == {"none", "Exception"}

Errors == {"GMCDeviceError", "Exception"}

\* the statements of service_mode, one enabled at a time
service_step ==
    \/ service_while
    \/ \E cpm \in Cpms, now \in Times : service_get_cpm(cpm, now)
    \/ \E error \in Errors : service_get_cpm_raises(error)
    \/ service_publish_realtime
    \/ service_add_reading
    \/ service_should_publish
    \/ service_get_aggregated
    \/ service_publish_aggregated
    \/ service_mark_published
    \/ service_sleep
    \/ service_except
    \/ service_finally
    \/ \E raised \in Raised : service_mqtt_disconnect(raised)
    \/ \E raised \in Raised : service_device_disconnect(raised)
    \/ service_return

NextService ==
    \/ signal_handler
    \/ on_connection_change
    \/ service_step

SpecService == ServiceInit /\ [][NextService]_vars

\* the interpreter keeps running service_mode: every call it makes returns or
\* raises (device reads time out, sleeps end)
SpecServiceFair == ServiceInit /\ [][NextService]_vars /\ WF_vars(service_step)

\* --------------------------------------- Home Assistant discovery messages
Prefixes == {"homeassistant", "ha"}
DeviceIds == {"05004d323533ab", "gmc_800"}

\* f"{self.config.homeassistant_prefix}/sensor/{self.device_id}/{sensor}/config",
\* as its path segments
discovery_topic(sensor) == <<homeassistant_prefix, "sensor", device_id, sensor, "config">>

\* payload="": the string of no characters
empty_payload == <<>>

\* json.dumps(payload) of a sensor's descriptor: a non-empty string
descriptor(sensor, subtopic, key) ==
    Some([unique_id |-> <<device_id, sensor>>,
          state_topic |-> get_topic(device_id, subtopic),
          value_template |-> key,
          availability_topic |-> get_topic(device_id, "availability")])

\* a HomeAssistantDiscovery object on a client that may or may not be
\* connected, nothing retained yet
DiscoveryInit ==
    /\ window_seconds = 0
    /\ samples = <<>>
    /\ last_aggregation_time = None
    /\ op = [name |-> "init"]
    /\ test_i = 0
    /\ latest = None
    /\ emitted = None
    /\ pc = "idle"
    /\ loop_reading = None
    /\ reading_count = 0
    /\ aggregated = None
    /\ aggregation_interval = 0
    /\ shutdown_requested = FALSE
    /\ connected \in BOOLEAN
    /\ clock = 0
    /\ calls = <<>>
    /\ ref = <<<<>>, None>>
    /\ agg_pub = None
    /\ in_order = TRUE
    /\ cleanup = <<>>
    /\ exit_code = None
    /\ retained = <<>>
    /\ homeassistant_prefix \in Prefixes
    /\ device_id \in DeviceIds
    /\ serial = None
    /\ will = Some(last_will)
    /\ publisher = None
    /\ mqtt_client = None
    /\ device = None
    /\ returning = None
    /\ client = Some([loop |-> TRUE])

\* self.client.publish(topic, payload, qos, retain) inside try/except Exception:
\* the message is retained by the broker when it was accepted
publish_retained(caller, topic, payload, qos, retain, next) ==
    /\ \E outcome \in client_publish :
          /\ calls' = Append(calls, Call(caller, <<topic, payload, qos, retain>>, outcome, "none"))
          /\ retained' = IF outcome = "published" /\ retain
                         THEN [t \in DOMAIN retained \cup {topic} |->
                                  IF t = topic THEN payload ELSE retained[t]]
                         ELSE retained
    /\ pc' = next
    /\ UNCHANGED <<engine, op, driver, emitted, loop_reading, reading_count,
                   aggregated, config, session, environment, clock, history, epilogue,
                   homeassistant_prefix, device_id>>

\* a call of publish_discovery begins
publish_discovery ==
    /\ pc = "idle"
    /\ pc' = "_publish_cpm_sensor"
    /\ calls' = <<>>
    /\ UNCHANGED <<engine, op, driver, emitted, loop_reading, reading_count,
                   aggregated, config, session, environment, clock, history, epilogue, discovery>>

publish_cpm_sensor ==
    /\ pc = "_publish_cpm_sensor"
    /\ publish_retained("_publish_cpm_sensor", discovery_topic("cpm"),
                        descriptor("cpm", "state", "cpm"), 1, TRUE,
                        "_publish_radiation_sensor")

publish_radiation_sensor ==
    /\ pc = "_publish_radiation_sensor"
    /\ publish_retained("_publish_radiation_sensor", discovery_topic("radiation"),
                        descriptor("radiation", "state", "usv_h"), 1, TRUE,
                        "_publish_avg_cpm_sensor")

publish_avg_cpm_sensor ==
    /\ pc = "_publish_avg_cpm_sensor"
    /\ publish_retained("_publish_avg_cpm_sensor", discovery_topic("cpm_avg"),
                        descriptor("cpm_avg", "state_avg", "cpm_avg"), 1, TRUE,
                        "_publish_avg_radiation_sensor")

publish_avg_radiation_sensor ==
    /\ pc = "_publish_avg_radiation_sensor"
    /\ publish_retained("_publish_avg_radiation_sensor", discovery_topic("radiation_avg"),
                        descriptor("radiation_avg", "state_avg", "usv_h_avg"), 1, TRUE,
                        "idle")

\* mutant: the list of remove_discovery names one sensor differently
sensors_renamed == <<"cpm", "radiation", "cpm_avg", "radiation_average">>

\* remove_discovery: sensors = ["cpm", "radiation", "cpm_avg", "radiation_avg"]
sensors == <<"cpm", "radiation", "cpm_avg", "radiation_avg">>

\* a call of remove_discovery begins
remove_discovery ==
    /\ pc = "idle"
    /\ pc' = "remove_discovery"
    /\ calls' = <<>>
    /\ UNCHANGED <<engine, op, driver, emitted, loop_reading, reading_count,
                   aggregated, config, session, environment, clock, history, epilogue, discovery>>

\* the sensors of remove_discovery's loop that are done
removed_sensors == Len(calls)

\* one pass of the for loop of remove_discovery
remove_discovery_sensor ==
    /\ pc = "remove_discovery"
    /\ LET sensor == sensors[removed_sensors + 1]
       IN publish_retained("remove_discovery", discovery_topic(sensor), empty_payload, 1, TRUE,
                           IF removed_sensors + 1 = Len(sensors) THEN "idle"
                           ELSE "remove_discovery")

NextDiscovery ==
    \/ on_connection_change
    \/ publish_discovery
    \/ publish_cpm_sensor
    \/ publish_radiation_sensor
    \/ publish_avg_cpm_sensor
    \/ publish_avg_radiation_sensor
    \/ remove_discovery
    \/ remove_discovery_sensor

SpecDiscovery == DiscoveryInit /\ [][NextDiscovery]_vars

\* ------------------------------------- a caller that keeps a returned aggregate
\* the caller's other variables stay as at start-up
idle == <<pc, loop_reading, reading_count, config, session, environment, clock, calls,
          history, epilogue, discovery>>

\* mutant: the aggregate carries the deque itself
samples_object_deque == "deque"

\* samples=list(self._samples): the object the samples field of the returned
\* aggregate refers to is a new list
samples_object == "list"

\* what the caller reads through the aggregate it holds once the engine's
\* deque has become `deque`: the statistics are immutable numbers, the samples
\* field shows the object it refers to
visible(held, deque) ==
    IF held = None THEN held
    ELSE IF samples_object = "list" THEN held
    ELSE Some([held[1] EXCEPT !.samples = deque])

caller_get_aggregated ==
    /\ get_aggregated
    /\ aggregated' = op'.ret
    /\ UNCHANGED <<driver, emitted, idle>>

caller_add_reading ==
    \E reading \in Readings :
        /\ IF latest = None THEN TRUE ELSE reading.timestamp >= latest[1]
        /\ add_reading(reading)
        /\ latest' = Some(reading.timestamp)
        /\ aggregated' = visible(aggregated, samples')
        /\ UNCHANGED <<test_i, emitted, idle>>

\* the emission is marked with the timestamp of the newest reading, as the
\* service loop does
caller_mark_published ==
    /\ latest # None
    /\ mark_published(latest[1])
    /\ emitted' = Some(latest[1])
    /\ aggregated' = visible(aggregated, samples')
    /\ UNCHANGED <<driver, idle>>

caller_clear ==
    /\ clear
    /\ emitted' = None
    /\ aggregated' = visible(aggregated, samples')
    /\ UNCHANGED <<driver, idle>>

NextSnapshot ==
    \/ caller_get_aggregated
    \/ caller_add_reading
    \/ caller_mark_published
    \/ caller_clear

SpecSnapshot == Init /\ [][NextSnapshot]_vars

\* ------------------------------------------------ GMCDevice on a serial port
\* A Python int that may exceed 2^31 is kept as two limbs: its value is
\* hi * 2^16 + lo with 0 <= lo < 2^16, and hi carries the sign.
int(b) == [hi |-> b \div 65536, lo |-> b % 65536]

\* x << 8
lshift8(x) == [hi |-> x.hi * 256 + x.lo \div 256, lo |-> (x.lo % 256) * 256]

\* x << n, for n a multiple of 8
RECURSIVE lshift(_, _)
lshift(x, n) == IF n = 0 THEN x ELSE lshift(lshift8(x), n - 8)

\* a | b on one limb
RECURSIVE bit_or(_, _)
bit_or(a, b) ==
    IF a = 0 THEN b
    ELSE IF b = 0 THEN a
    ELSE (IF a % 2 = 1 \/ b % 2 = 1 THEN 1 ELSE 0) + 2 * bit_or(a \div 2, b \div 2)

\* x | y, for x, y >= 0
or(x, y) == [hi |-> bit_or(x.hi, y.hi), lo |-> bit_or(x.lo, y.lo)]

\* response bytes the device may send
Bytes == {0, 128, 255}
Responses == {<<b0, b1, b2, b3>> : b0 \in Bytes, b1 \in Bytes, b2 \in Bytes, b3 \in Bytes}

CMD_GET_CPM == "<GETCPM>>"

\* mutant: the first byte is taken as the least significant one
decode_little_endian(data) ==
    or(or(or(lshift(int(data[4]), 24), lshift(int(data[3]), 16)),
          lshift(int(data[2]), 8)), int(data[1]))

\* get_cpm: cpm = (data[0] << 24) | (data[1] << 16) | (data[2] << 8) | data[3]
decode(data) ==
    or(or(or(lshift(int(data[1]), 24), lshift(int(data[2]), 16)),
          lshift(int(data[3]), 8)), int(data[4]))

\* GMCDevice.is_connected
is_connected == serial # None /\ serial[1].is_open

\* what the serial port does with a command: the write raises, the flush
\* after the write raises, or the command is sent
Sends == {"write raised", "flush raised", "sent"}

\* what serial.read(4) does: it raises, it returns fewer than 4 bytes when
\* the timeout ends, or it returns 4 bytes
Reads == {"SerialException", "short", "complete"}

\* GMCDevice.get_cpm: the commands it wrote to the port, the Reading it
\* returned and the exception it raised; Reading.__post_init__ compares the
\* count with 0, which the high limb decides
get_cpm(send, read, data, now) ==
    LET failed(error, written) ==
            [name |-> "get_cpm", is_connected |-> is_connected, written |-> written,
             data |-> <<>>, ret |-> None, raised |-> error]
        cpm == decode(data)
    IN IF ~is_connected THEN failed("GMCConnectionError", <<>>)
       ELSE IF send = "write raised" THEN failed("GMCCommandError", <<>>)
       ELSE IF send = "flush raised" THEN failed("GMCCommandError", <<CMD_GET_CPM>>)
       ELSE IF read # "complete" THEN failed("GMCCommandError", <<CMD_GET_CPM>>)
       ELSE IF post_init(Reading(cpm.hi, now)) # "ok"
            THEN [name |-> "get_cpm", is_connected |-> TRUE, written |-> <<CMD_GET_CPM>>,
                  data |-> data, ret |-> None, raised |-> "ValueError"]
       ELSE [name |-> "get_cpm", is_connected |-> TRUE, written |-> <<CMD_GET_CPM>>,
             data |-> data, ret |-> Some(Reading(cpm, now)), raised |-> "none"]

\* a GMCDevice object after construction, used by a caller of its own
DeviceInit ==
    /\ window_seconds = 0
    /\ samples = <<>>
    /\ last_aggregation_time = None
    /\ op = [name |-> "init"]
    /\ test_i = 0
    /\ latest = None
    /\ emitted = None
    /\ ServiceIdle

\* the caller's variables other than the device
bystanders == <<engine, driver, emitted, pc, loop_reading, reading_count, aggregated,
                config, environment, clock, calls, history, epilogue, discovery,
                will, publisher, mqtt_client, device, returning, client>>

\* GMCDevice.connect: serial.Serial(...) raises, or the port is open and a
\* later call on it raises, or _get_device_info raises, or it returns
Connects == {"Serial raised", "setDTR raised", "_get_device_info raised", "connected"}

device_connect(outcome) ==
    /\ pc = "none"
    /\ serial' = IF outcome = "Serial raised" THEN serial ELSE Some([is_open |-> TRUE])
    /\ op' = [name |-> "connect",
              raised |-> IF outcome = "connected" THEN "none"
                         ELSE IF outcome = "_get_device_info raised" THEN "GMCCommandError"
                         ELSE "GMCConnectionError"]
    /\ UNCHANGED bystanders

\* GMCDevice.disconnect
device_disconnect ==
    /\ pc = "none"
    /\ serial' = IF is_connected THEN None ELSE serial
    /\ op' = [name |-> "disconnect", raised |-> "none"]
    /\ UNCHANGED bystanders

\* a call of GMCDevice.get_cpm
device_get_cpm(send, read, data, now) ==
    /\ pc = "none"
    /\ op' = get_cpm(send, read, data, now)
    /\ UNCHANGED <<serial, bystanders>>

\* the caller polls; the response and the clock are read only after a
\* complete read
device_poll ==
    \E send \in Sends, read \in Reads :
        IF send = "sent" /\ read = "complete"
        THEN \E data \in Responses, now \in Times : device_get_cpm(send, read, data, now)
        ELSE device_get_cpm(send, read, <<>>, 0)

NextDevice ==
    \/ \E outcome \in Connects : device_connect(outcome)
    \/ device_disconnect
    \/ device_poll

SpecDevice == DeviceInit /\ [][NextDevice]_vars

\* ------------------- the callers of GMCDevice.get_cpm: the service loop, whose
\* device is connected, and a caller of its own
PollInit == ServiceInit \/ DeviceInit

NextPoll == NextService \/ NextDevice

SpecPoll == PollInit /\ [][NextPoll]_vars

\* ------------------------------------- test_device_reading, started by main()
\* main() has installed signal_handler for SIGINT and SIGTERM before it calls
\* test_device_reading, so an interrupt sets shutdown_requested and raises no
\* KeyboardInterrupt; the with statement is about to enter the device
TestInit ==
    /\ window_seconds = 0
    /\ samples = <<>>
    /\ last_aggregation_time = None
    /\ op = [name |-> "init"]
    /\ test_i = 0
    /\ latest = None
    /\ emitted = None
    /\ pc = "with GMCDevice"
    /\ loop_reading = None
    /\ reading_count = 0
    /\ aggregated = None
    /\ aggregation_interval = 0
    /\ shutdown_requested = FALSE
    /\ connected = FALSE
    /\ clock = 0
    /\ calls = <<>>
    /\ ref = <<<<>>, None>>
    /\ agg_pub = None
    /\ in_order = TRUE
    /\ cleanup = <<>>
    /\ exit_code = None
    /\ retained = <<>>
    /\ homeassistant_prefix = "homeassistant"
    /\ device_id = "gmc_800"
    /\ serial = None
    /\ will = None
    /\ publisher = None
    /\ mqtt_client = None
    /\ device = None
    /\ returning = None
    /\ client = None

\* what test_device_reading leaves alone
outside_test == <<engine, op, driver, emitted, aggregated, config, environment, clock,
                  calls, history, cleanup, discovery, will, publisher, mqtt_client,
                  returning, client>>

\* with GMCDevice(device_config) as device: __enter__ connects; a
\* GMCDeviceError of connect is caught at the end of the function, return 1
test_enter(outcome) ==
    /\ pc = "with GMCDevice"
    /\ serial' = IF outcome = "Serial raised" THEN serial ELSE Some([is_open |-> TRUE])
    /\ device' = IF outcome = "connected" THEN Some("GMCDevice") ELSE device
    /\ pc' = IF outcome = "connected" THEN "get_cpm" ELSE "return"
    /\ exit_code' = IF outcome = "connected" THEN exit_code ELSE Some(1)
    /\ UNCHANGED <<loop_reading, reading_count, outside_test>>

\* while True: reading = device.get_cpm(); reading_count += 1
test_get_cpm(cpm, now) ==
    /\ pc = "get_cpm"
    /\ reading_count < MaxPolls
    /\ loop_reading' = Some(Reading(cpm, now))
    /\ reading_count' = reading_count + 1
    /\ pc' = "log"
    /\ UNCHANGED <<serial, device, exit_code, outside_test>>

\* device.get_cpm() raises: a GMCDeviceError is caught inside the loop, any
\* other exception leaves the loop and the with block
test_get_cpm_raises(error) ==
    /\ pc = "get_cpm"
    /\ pc' = IF error = "GMCDeviceError" THEN "except" ELSE "__exit__"
    /\ UNCHANGED <<serial, device, loop_reading, reading_count, exit_code, outside_test>>

\* logger.info(...) of the reading
test_log ==
    /\ pc = "log"
    /\ pc' = "sleep"
    /\ UNCHANGED <<serial, device, loop_reading, reading_count, exit_code, outside_test>>

\* time.sleep(2.0), then the next pass of while True
test_sleep ==
    /\ pc = "sleep"
    /\ pc' = "get_cpm"
    /\ UNCHANGED <<serial, device, loop_reading, reading_count, exit_code, outside_test>>

\* except GMCDeviceError: log, time.sleep(5.0), then the next pass
test_except ==
    /\ pc = "except"
    /\ pc' = "get_cpm"
    /\ UNCHANGED <<serial, device, loop_reading, reading_count, exit_code, outside_test>>

\* GMCDevice.__exit__ disconnects and lets the exception pass;
\* except Exception: return 1
test_exit ==
    /\ pc = "__exit__"
    /\ serial' = None
    /\ exit_code' = Some(1)
    /\ pc' = "return"
    /\ UNCHANGED <<device, loop_reading, reading_count, outside_test>>

\* the statements of test_device_reading, one enabled at a time
test_step ==
    \/ \E outcome \in Connects : test_enter(outcome)
    \/ \E cpm \in Cpms, now \in Times : test_get_cpm(cpm, now)
    \/ \E error \in Errors : test_get_cpm_raises(error)
    \/ test_log
    \/ test_sleep
    \/ test_except
    \/ test_exit

NextTest ==
    \/ signal_handler
    \/ test_step

\* the interpreter keeps running test_device_reading
SpecTestFair == TestInit /\ [][NextTest]_vars /\ WF_vars(test_step)

\* -------------------------------------------- MQTTClient on a paho client
\* The caller's thread runs connect, publish and disconnect one statement at
\* a time; the paho network thread runs _on_connect and _on_disconnect
\* between any two of them while the network loop runs.

\* rc of _on_connect: 0 when the broker accepted, 5 (not authorised) otherwise
ResultCodes == {0, 5}

\* what the methods and callbacks of MQTTClient leave alone
outside_client == <<engine, driver, emitted, loop_reading, reading_count, aggregated, config,
                    shutdown_requested, clock, history, epilogue, discovery,
                    serial, publisher, mqtt_client, device, returning>>

\* a MQTTClient object after construction, used by a caller of its own
ClientInit ==
    /\ window_seconds = 0
    /\ samples = <<>>
    /\ last_aggregation_time = None
    /\ op = [name |-> "init"]
    /\ test_i = 0
    /\ latest = None
    /\ emitted = None
    /\ ServiceIdle

\* MQTTClient.is_connected
client_is_connected == connected /\ client # None

\* MQTTClient._on_connect(client, userdata, flags, rc)
on_connect(rc) ==
    /\ client # None
    /\ client[1].loop
    /\ connected' = (rc = 0)
    /\ UNCHANGED <<op, pc, will, client, calls, outside_client>>

\* MQTTClient._on_disconnect(client, userdata, rc)
on_disconnect ==
    /\ client # None
    /\ client[1].loop
    /\ connected' = FALSE
    /\ UNCHANGED <<op, pc, will, client, calls, outside_client>>

\* MQTTClient.connect from `at` up to loop_start: mqtt.Client(...), will_set
\* and connect, which raises when the broker cannot be reached; the except
\* clause turns every exception into MQTTClientError
connect_begin(refused, at, raised) ==
    /\ pc = at
    /\ will' = Some(last_will)
    /\ client' = Some([loop |-> ~refused])
    /\ op' = IF refused THEN [name |-> "connect", raised |-> "MQTTClientError"]
             ELSE [name |-> "loop_start"]
    /\ pc' = IF refused THEN raised ELSE "connect: wait"
    /\ UNCHANGED <<connected, calls, outside_client>>

\* while not self._connected and (time.time() - start_time) < timeout: sleep;
\* the loop is left when the flag is set or the ten seconds are over
connect_wait(timeout) ==
    /\ pc = "connect: wait"
    /\ connected \/ timeout
    /\ pc' = "connect: check"
    /\ UNCHANGED <<op, connected, will, client, calls, outside_client>>

\* mutant: connect returns once the wait is over, whatever the flag says
connect_check_skipped(returned, raised) ==
    /\ pc = "connect: check"
    /\ op' = [name |-> "connect", raised |-> "none"]
    /\ pc' = returned
    /\ UNCHANGED <<connected, will, client, calls, outside_client>>

\* if not self._connected: raise MQTTClientError("Connection timeout")
connect_check(returned, raised) ==
    /\ pc = "connect: check"
    /\ op' = [name |-> "connect",
              raised |-> IF connected THEN "none" ELSE "MQTTClientError"]
    /\ pc' = IF connected THEN returned ELSE raised
    /\ UNCHANGED <<connected, will, client, calls, outside_client>>

\* the topics and payloads a caller of publish passes
Messages == {<<get_topic("gmc_800", "availability"), "online">>,
             <<get_topic("gmc_800", "state"), "reading">>}

\* MQTTClient.publish, its first statement:
\* if not self.is_connected(): raise MQTTClientError
mqtt_publish(message) ==
    /\ pc = "none"
    /\ Len(calls) < MaxLen
    /\ op' = IF client_is_connected
             THEN [name |-> "is_connected", message |-> message]
             ELSE [name |-> "publish", message |-> message, handed |-> FALSE,
                   flag |-> connected, raised |-> "MQTTClientError"]
    /\ pc' = IF client_is_connected THEN "_client.publish" ELSE "none"
    /\ UNCHANGED <<connected, will, client, calls, outside_client>>

\* result = self._client.publish(topic, payload, qos=qos, retain=retain):
\* the message is handed to the paho client, which returns a result code or
\* raises; `flag` is self._connected at the moment of the call, and calls
\* keeps what the paho client was handed so far
mqtt_client_publish(outcome) ==
    /\ pc = "_client.publish"
    /\ calls' = Append(calls, [name |-> "_client.publish", arg |-> op.message,
                               flag |-> connected])
    /\ op' = [name |-> "publish", message |-> op.message, handed |-> TRUE,
              flag |-> connected,
              raised |-> IF outcome = "MQTTClientError" THEN outcome ELSE "none"]
    /\ pc' = "none"
    /\ UNCHANGED <<connected, will, client, outside_client>>

\* MQTTClient.disconnect
mqtt_disconnect ==
    /\ pc = "none"
    /\ client' = IF client # None THEN Some([loop |-> FALSE]) ELSE client
    /\ connected' = IF client # None THEN FALSE ELSE connected
    /\ op' = [name |-> "disconnect", raised |-> "none"]
    /\ UNCHANGED <<pc, will, calls, outside_client>>

\* the caller connects a client that has no running network loop
mqtt_connect(refused) ==
    /\ IF client = None THEN TRUE ELSE ~client[1].loop
    /\ connect_begin(refused, "none", "none")

NextClient ==
    \/ \E rc \in ResultCodes : on_connect(rc)
    \/ on_disconnect
    \/ \E refused \in BOOLEAN : mqtt_connect(refused)
    \/ \E timeout \in BOOLEAN : connect_wait(timeout)
    \/ connect_check("none", "none")
    \/ \E message \in Messages : mqtt_publish(message)
    \/ \E outcome \in {"published", "rc", "MQTTClientError"} : mqtt_client_publish(outcome)
    \/ mqtt_disconnect

SpecClient == ClientInit /\ [][NextClient]_vars

\* --------------------------------- service_mode from its first statement
\* main() has installed signal_handler; nothing is constructed yet. The
\* aggregator is built at the end of start-up from the configured window, so
\* the engine is given as that constructor will leave it.
StartupInit ==
    /\ window_seconds = MaxWindow
    /\ samples = <<>>
    /\ last_aggregation_time = None
    /\ op = [name |-> "init"]
    /\ test_i = 0
    /\ latest = None
    /\ emitted = None
    /\ pc = "GMCDevice"
    /\ loop_reading = None
    /\ reading_count = 0
    /\ aggregated = None
    /\ aggregation_interval = MaxInterval
    /\ shutdown_requested = FALSE
    /\ connected = FALSE
    /\ clock = 0
    /\ calls = <<>>
    /\ ref = <<<<>>, None>>
    /\ agg_pub = None
    /\ in_order = TRUE
    /\ cleanup = <<>>
    /\ exit_code = None
    /\ retained = <<>>
    /\ homeassistant_prefix = "homeassistant"
    /\ device_id \in DeviceIds
    /\ serial = None
    /\ will = None
    /\ publisher = None
    /\ mqtt_client = None
    /\ device = None
    /\ returning = None
    /\ client = None

\* what the statements of start-up outside the MQTT client leave alone
outside_startup == <<engine, op, driver, emitted, loop_reading, reading_count, aggregated,
                     config, environment, clock, calls, history, epilogue, discovery,
                     will, client>>

\* device = GMCDevice(device_config); device.connect(): every exception of
\* connect reaches `except GMCDeviceError` or `except Exception`, return 1
service_device_connect(outcome) ==
    /\ pc = "GMCDevice"
    /\ device' = Some("GMCDevice")
    /\ serial' = IF outcome = "Serial raised" THEN serial ELSE Some([is_open |-> TRUE])
    /\ returning' = IF outcome = "connected" THEN returning ELSE Some(1)
    /\ pc' = IF outcome = "connected" THEN "MQTTClient" ELSE "finally"
    /\ UNCHANGED <<publisher, mqtt_client, outside_startup>>

\* mqtt_client = MQTTClient(mqtt_config)
service_mqtt_client ==
    /\ pc = "MQTTClient"
    /\ mqtt_client' = Some("MQTTClient")
    /\ pc' = "mqtt_client.connect"
    /\ UNCHANGED <<serial, publisher, device, returning, outside_startup>>

\* mqtt_client.connect(), up to loop_start
service_mqtt_connect(refused) == connect_begin(refused, "mqtt_client.connect", "except Exception")

\* mqtt_client.connect(), its last statement
service_mqtt_connected == connect_check("MQTTPublisher", "except Exception")

\* except Exception as e: logger.error(...); return 1
service_except_exception ==
    /\ pc = "except Exception"
    /\ returning' = Some(1)
    /\ pc' = "finally"
    /\ UNCHANGED <<serial, publisher, mqtt_client, device, outside_startup>>

\* mutant: start-up publishes discovery before the publisher announces itself
service_publisher_silent ==
    /\ pc = "MQTTPublisher"
    /\ publisher' = Some("MQTTPublisher")
    /\ pc' = "homeassistant_discovery"
    /\ UNCHANGED <<serial, mqtt_client, device, returning, outside_startup>>

\* publisher = MQTTPublisher(...); publisher.startup() begins
service_publisher ==
    /\ pc = "MQTTPublisher"
    /\ publisher' = Some("MQTTPublisher")
    /\ pc' = "publish_availability"
    /\ UNCHANGED <<serial, mqtt_client, device, returning, outside_startup>>

\* the topic of MQTTPublisher.publish_availability
availability_topic == get_topic(device_id, "availability")

\* MQTTPublisher.startup: self.publish_availability(online=True)
service_publish_availability ==
    /\ pc = "publish_availability"
    /\ publish_retained("publish_availability", availability_topic, Some("online"), 1, TRUE,
                        "publish_device_info")

\* json.dumps(payload) of publish_device_info: a non-empty string
device_info_payload == Some([manufacturer |-> "GQ Electronics"])

\* MQTTPublisher.startup: self.publish_device_info()
service_publish_device_info ==
    /\ pc = "publish_device_info"
    /\ publish_retained("publish_device_info", get_topic(device_id, "info"),
                        device_info_payload, 1, TRUE, "homeassistant_discovery")

\* if mqtt_config.homeassistant_discovery: discovery.publish_discovery(),
\* whose four publishes are publish_cpm_sensor to publish_avg_radiation_sensor
service_discovery(enabled) ==
    /\ pc = "homeassistant_discovery"
    /\ pc' = IF enabled THEN "_publish_cpm_sensor" ELSE "MovingAverageAggregator"
    /\ UNCHANGED <<session, outside_startup>>

\* aggregator = MovingAverageAggregator(...), after publish_discovery has
\* returned when discovery is enabled; the main loop is next
service_aggregator ==
    /\ IF pc = "idle" THEN publisher # None ELSE pc = "MovingAverageAggregator"
    /\ pc' = "while"
    /\ UNCHANGED <<session, outside_startup>>

\* the statements of service_mode before its main loop
startup_step ==
    \/ \E outcome \in Connects : service_device_connect(outcome)
    \/ service_mqtt_client
    \/ \E refused \in BOOLEAN : service_mqtt_connect(refused)
    \/ \E timeout \in BOOLEAN : connect_wait(timeout)
    \/ service_mqtt_connected
    \/ service_except_exception
    \/ service_publisher
    \/ service_publish_availability
    \/ service_publish_device_info
    \/ \E enabled \in BOOLEAN : service_discovery(enabled)
    \/ publish_cpm_sensor
    \/ publish_radiation_sensor
    \/ publish_avg_cpm_sensor
    \/ publish_avg_radiation_sensor
    \/ service_aggregator

\* the statements of the main loop and of the finally block, with a device
\* that reports one count rate and a clock that advances by at most one
\* second from poll to poll
steady_step ==
    /\ service_step
    /\ loop_reading' # loop_reading =>
          loop_reading'[1].cpm = 3 /\ clock' - clock \in {0, 1}

NextStartup ==
    \/ signal_handler
    \/ \E rc \in ResultCodes : on_connect(rc)
    \/ on_disconnect
    \/ startup_step
    \/ steady_step
    \/ service_return_1

SpecStartup == StartupInit /\ [][NextStartup]_vars

\* the main loop alone, entered after a start-up that succeeded, with the
\* same steady device; the interpreter keeps running service_mode: every
\* call it makes returns or raises (device reads time out, sleeps end)
NextSteady ==
    \/ signal_handler
    \/ on_connection_change
    \/ steady_step

SpecSteadyFair == ServiceInit /\ [][NextSteady]_vars /\ WF_vars(steady_step)

\* ------------------------------------------------------------------ claims
\* every entry of the buffer is no older than the window, counted back from
\* the sample add_reading was just given
WindowHolds ==
    \A i \in 1..Len(samples) :
        samples[i].timestamp >= op.reading.timestamp - window_seconds

\* C1: when samples arrive with strictly increasing timestamps, after each
\* add_reading every sample left in the window has
\* timestamp >= (timestamp of the sample just ingested) - window_seconds.
C1_WindowBoundedWhenIncreasing ==
    (op.name = "add_reading" /\ latest = Some(op.reading.timestamp)) => WindowHolds

\* C1 witness: an ingest that evicted the front and kept two samples
C1_Witness ==
    /\ op.name = "add_reading"
    /\ op.removed >= 1
    /\ Len(samples) = 2
    /\ samples[1].timestamp < samples[2].timestamp

\* C2: for any sequence of ingested samples, out-of-order ones included, right
\* after each add_reading every sample in the window has
\* timestamp >= (timestamp of the sample just ingested) - window_seconds.
C2_WindowBoundedAlways ==
    op.name = "add_reading" => WindowHolds

\* the number of leading entries of buffer that are strictly older than cutoff
StalePrefixLen(buffer, cutoff) ==
    CHOOSE k \in 0..Len(buffer) :
        /\ \A i \in 1..k : buffer[i].timestamp < cutoff
        /\ k < Len(buffer) => buffer[k + 1].timestamp >= cutoff

\* C3: add_reading(s) turns the buffer B into B ++ [s] without its maximal
\* prefix of entries strictly older than s.timestamp - window_seconds: only
\* the front is evicted, up to the first entry that is not stale, an entry
\* exactly at the cutoff stays, and the retained entries keep their order.
C3_EvictsMaximalStalePrefix ==
    [][op'.name = "add_reading" =>
         LET s == op'.reading
             B == Append(samples, s)
             k == StalePrefixLen(B, s.timestamp - window_seconds)
         IN /\ samples' = SubSeq(B, k + 1, Len(B))
            /\ op'.removed = k]_vars

\* C3 witness: an ingest evicted the front, kept an entry exactly at the
\* cutoff as the new front, and kept a stale entry behind it
C3_Witness ==
    /\ op.name = "add_reading"
    /\ op.removed >= 1
    /\ Len(samples) >= 2
    /\ samples[1].timestamp = op.reading.timestamp - window_seconds
    /\ samples[Len(samples)] = op.reading

\* C4: fed at one-second spacing, a fresh engine holds min(n, window_seconds + 1)
\* samples after n ingests, so never more than window_seconds + 1, and
\* get_sample_count reports that number.
C4_SpacedCountBounded ==
    LET cap == window_seconds + 1
        expected == IF test_i <= cap THEN test_i ELSE cap
    IN /\ Len(samples) = expected
       /\ Len(samples) <= cap
       /\ op.name = "get_sample_count" => op.ret = expected

\* C4 witness: more samples fed than the window holds, and the count asked for
C4_Witness ==
    /\ op.name = "get_sample_count"
    /\ window_seconds >= 1
    /\ test_i > window_seconds + 1
    /\ op.ret = window_seconds + 1

\* C5: get_aggregated returns None exactly when the buffer is empty, and a
\* result it returns has sample_count >= 1.
C5_AbsentIffEmpty ==
    op.name = "get_aggregated" =>
        /\ (op.ret = None) <=> (samples = <<>>)
        /\ op.ret # None => op.ret[1].sample_count >= 1

\* C5 witness: get_aggregated answered None on an engine whose window keeps
\* the sample it is given (so the buffer was never fed, or was cleared)
C5_Witness ==
    /\ op.name = "get_aggregated"
    /\ op.ret = None
    /\ window_seconds >= 0

\* the sum of the counts of the first n buffer entries
RECURSIVE CountSum(_)
CountSum(n) == IF n = 0 THEN 0 ELSE samples[n].cpm + CountSum(n - 1)

\* C6: on a non-empty window with counts c_1..c_n, get_aggregated returns
\* cpm_min = min c_i, cpm_max = max c_i, sample_count = n, cpm_avg with
\* cpm_avg * n = sum c_i, the configured window_seconds, and the timestamp of
\* the last buffer entry.
C6_AggregateStatistics ==
    (op.name = "get_aggregated" /\ samples # <<>>) =>
        /\ op.ret # None
        /\ LET r == op.ret[1]
               n == Len(samples)
               counts == {samples[i].cpm : i \in 1..n}
           IN /\ r.cpm_min \in counts /\ \A c \in counts : r.cpm_min <= c
              /\ r.cpm_max \in counts /\ \A c \in counts : r.cpm_max >= c
              /\ r.sample_count = n
              /\ r.cpm_avg.num * n = CountSum(n) * r.cpm_avg.den
              /\ r.cpm_avg.den > 0
              /\ r.window_seconds = window_seconds
              /\ r.timestamp = samples[n].timestamp

\* C6 witness: an aggregate over three samples with differing counts whose
\* newest entry is not the oldest in time
C6_Witness ==
    /\ op.name = "get_aggregated"
    /\ Len(samples) = 3
    /\ op.ret[1].cpm_min < op.ret[1].cpm_max
    /\ samples[1].timestamp # samples[3].timestamp

\* C7: get_aggregated changes neither the window buffer nor the last-emission
\* time.
C7_GetAggregatedPure ==
    [][op'.name = "get_aggregated" =>
         /\ samples' = samples
         /\ last_aggregation_time' = last_aggregation_time
         /\ window_seconds' = window_seconds]_vars

\* C7 witness: get_aggregated returned a result on an engine whose gate is set
C7_Witness ==
    /\ op.name = "get_aggregated"
    /\ op.ret # None
    /\ Len(samples) >= 2
    /\ last_aggregation_time # None

\* C8: while no emission is recorded (fresh engine, or since the last clear),
\* should_publish returns True for every time and interval, however many
\* samples were ingested.
C8_FirstPublishAlwaysDue ==
    (op.name = "should_publish" /\ emitted = None) => op.ret = TRUE

\* C8 witness: asked with an interval longer than the time given, on an engine
\* that holds samples and has no emission recorded
C8_Witness ==
    /\ op.name = "should_publish"
    /\ emitted = None
    /\ Len(samples) >= 2
    /\ op.interval_seconds > op.current_time
    /\ op.ret = TRUE

\* C9: once mark_published(t0) is the emission on record, should_publish(now,
\* interval) is True exactly when now - t0 >= interval.
C9_PublishDueIffIntervalElapsed ==
    (op.name = "should_publish" /\ emitted # None) =>
        (op.ret <=> (op.current_time - emitted[1] >= op.interval_seconds))

\* C9 witness: exactly interval seconds after the mark, interval > 0
C9_Witness ==
    /\ op.name = "should_publish"
    /\ emitted # None
    /\ op.interval_seconds > 0
    /\ op.current_time - emitted[1] = op.interval_seconds
    /\ op.ret = TRUE

\* C10: should_publish changes neither the last-emission time nor the buffer,
\* and the last-emission time changes only in mark_published and clear.
C10_ShouldPublishPure ==
    [][/\ op'.name = "should_publish" =>
            /\ last_aggregation_time' = last_aggregation_time
            /\ samples' = samples
       /\ last_aggregation_time' # last_aggregation_time =>
            op'.name \in {"mark_published", "clear"}]_vars

\* C10 witness: should_publish answered True on an engine with a set gate
\* and samples
C10_Witness ==
    /\ op.name = "should_publish"
    /\ op.ret = TRUE
    /\ last_aggregation_time # None
    /\ samples # <<>>

\* C11 (as stated): between two clear() calls the last-emission time never
\* decreases, whatever the sequence of engine operations.
C11_GateNeverDecreases ==
    [][(last_aggregation_time # None /\ last_aggregation_time' # None) =>
           last_aggregation_time'[1] >= last_aggregation_time[1]]_vars

\* C11 (amended): between two clear() calls the last-emission time decreases
\* only in a mark_published call that is given a timestamp earlier than the
\* one on record; no other operation moves it back, so it never decreases
\* while every mark_published is given a timestamp not earlier than the gate.
C11_GateDecreasesOnlyByEarlierMark ==
    [][(/\ last_aggregation_time # None
        /\ last_aggregation_time' # None
        /\ last_aggregation_time'[1] < last_aggregation_time[1]) =>
           (op'.name = "mark_published" /\ op'.timestamp = last_aggregation_time'[1])]_vars

\* C11 witness: the gate stands at the latest time while a sample older than
\* it is the newest of the buffer and get_aggregated has run
C11_Witness ==
    /\ op.name = "get_aggregated"
    /\ last_aggregation_time = Some(MaxTime)
    /\ samples # <<>>
    /\ samples[Len(samples)].timestamp < MaxTime

\* C12: mark_published(t) sets the last-emission time to t whatever it was
\* before, and leaves the window buffer unchanged.
C12_MarkSetsUnconditionally ==
    [][op'.name = "mark_published" =>
         /\ last_aggregation_time' = Some(op'.timestamp)
         /\ last_aggregation_time' = emitted'
         /\ samples' = samples
         /\ window_seconds' = window_seconds]_vars

\* C12 witness: the gate was set to the earliest time on an engine holding samples
C12_Witness ==
    /\ op.name = "mark_published"
    /\ op.timestamp = 0
    /\ last_aggregation_time = Some(0)
    /\ Len(samples) >= 2

\* C13: clear() empties the buffer and resets the gate together; right after
\* it get_sample_count is 0, get_aggregated and get_window_age are None,
\* should_publish is True for any arguments, and a second clear() changes
\* nothing.
C13_ClearResetsBoth ==
    [][op.name = "clear" =>
         /\ samples = <<>>
         /\ last_aggregation_time = None
         /\ op'.name = "get_sample_count" => op'.ret = 0
         /\ op'.name = "get_aggregated" => op'.ret = None
         /\ op'.name = "get_window_age" => op'.ret = None
         /\ op'.name = "should_publish" => op'.ret = TRUE
         /\ op'.name = "clear" => (engine' = engine /\ op'.removed = 0)]_vars

\* C13 witness: a clear() that removed samples
C13_Witness ==
    /\ op.name = "clear"
    /\ op.removed >= 2
    /\ samples = <<>>
    /\ last_aggregation_time = None

\* C14: get_window_age returns None exactly when the buffer is empty, the
\* zero duration for one entry, and otherwise the last entry's timestamp
\* minus the first entry's.
C14_WindowAge ==
    op.name = "get_window_age" =>
        /\ (op.ret = None) <=> (samples = <<>>)
        /\ Len(samples) = 1 => op.ret = Some(0)
        /\ Len(samples) >= 1 =>
              op.ret = Some(samples[Len(samples)].timestamp - samples[1].timestamp)

\* C14 witness: several entries, the last one earlier than the first
C14_Witness ==
    /\ op.name = "get_window_age"
    /\ Len(samples) >= 2
    /\ op.ret # None
    /\ op.ret[1] < 0

\* C15: constructing a Reading fails exactly when cpm < 0; a failed
\* construction yields no object, a successful one the reading with the
\* fields given, so no sample with a negative count is ingested.
C15_NegativeCountRejected ==
    /\ op.name = "Reading" =>
          /\ op.raised <=> (op.cpm < 0)
          /\ op.raised => op.ret = None
          /\ ~op.raised => op.ret = Some([cpm |-> op.cpm, timestamp |-> op.timestamp])
    /\ \A i \in 1..Len(samples) : samples[i].cpm >= 0

\* C15 witness: a construction with a negative count failed after samples
\* were ingested
C15_Witness ==
    /\ op.name = "Reading"
    /\ op.cpm < 0
    /\ op.raised
    /\ Len(samples) >= 2

EngineCalls ==
    {"add_reading", "get_aggregated", "should_publish", "mark_published",
     "get_sample_count", "get_window_age", "clear"}

\* C16: every engine call completes normally in every state: none raises, an
\* empty window is reported as None (or a count of 0) and a gate never set as
\* a boolean.
C16_NoRaiseOnEmptyOrNever ==
    /\ op.name \in EngineCalls =>
          /\ "raised" \notin DOMAIN op
          /\ (op.name = "get_aggregated" /\ samples = <<>>) => op.ret = None
          /\ (op.name = "get_window_age" /\ samples = <<>>) => op.ret = None
          /\ (op.name = "get_sample_count" /\ samples = <<>>) => op.ret = 0
          /\ (op.name = "should_publish" /\ last_aggregation_time = None) =>
                op.ret \in BOOLEAN
    /\ samples = <<>> =>
          /\ ENABLED get_aggregated
          /\ ENABLED get_window_age
          /\ ENABLED get_sample_count
          /\ ENABLED clear
          /\ \A r \in Readings : ENABLED add_reading(r)
    /\ last_aggregation_time = None =>
          /\ \A t \in Times, i \in Intervals : ENABLED should_publish(t, i)
          /\ \A t \in Times : ENABLED mark_published(t)

\* C16 witness: get_window_age was asked on an empty window with the gate never set
C16_Witness ==
    /\ op.name = "get_window_age"
    /\ samples = <<>>
    /\ last_aggregation_time = None
    /\ op.ret = None

LoopOrder ==
    <<"get_cpm", "publish_realtime", "add_reading", "should_publish",
      "get_aggregated", "publish_aggregated", "mark_published">>

\* C17: within an iteration a polled reading is realtime-published, then
\* ingested, then should_publish(reading.timestamp, aggregation_interval) is
\* asked, and only when that is True come get_aggregated, publish_aggregated
\* and mark_published(reading.timestamp); every polled reading is published
\* and ingested exactly once whether or not an aggregate follows.
C17_IterationOrder ==
    LET n == Len(calls)
    IN /\ n <= Len(LoopOrder)
       /\ \A i \in 1..n : calls[i].name = LoopOrder[i]
       /\ pc = "publish_realtime" => n = 1
       /\ pc = "add_reading" => n = 2
       /\ pc = "should_publish" => n = 3
       /\ pc = "get_aggregated" => n = 4
       /\ pc = "publish_aggregated" => n = 5
       /\ pc = "mark_published" => n = 6
       /\ (n >= 1 /\ calls[1].raised = "none") =>
             LET reading == calls[1].ret[1]
             IN /\ loop_reading = Some(reading)
                /\ n >= 2 => calls[2].arg = <<reading>>
                /\ n >= 3 => calls[3].arg = <<reading>>
                /\ n >= 4 => calls[4].arg = <<reading.timestamp, aggregation_interval>>
                /\ n >= 5 => calls[4].ret = TRUE
                /\ n >= 6 => (calls[5].ret # None /\ calls[6].arg = calls[5].ret)
                /\ n >= 7 => calls[7].arg = <<reading.timestamp>>
                /\ pc \in {"sleep", "while", "finally", "return"} =>
                      /\ n \in {4, 5, 7}
                      /\ n = 4 <=> ~calls[4].ret
                      /\ n = 5 => calls[5].ret = None

\* C17 witness: the second reading polled went through all seven calls
C17_Witness ==
    /\ pc = "sleep"
    /\ reading_count = 2
    /\ Len(calls) = 7

\* C18: a publish that fails is dropped and the loop moves on: after every
\* iteration the buffer and the last-emission time are those of a run over
\* the same polled readings in which every publish succeeds, and the loop
\* backs off only for a failed poll.
C18_PublishFailureNeverReachesEngine ==
    /\ pc \in {"sleep", "while", "except", "finally", "return"} =>
          <<samples, last_aggregation_time>> = ref
    /\ pc = "except" => (Len(calls) = 1 /\ calls[1].raised # "none")

\* C18 witness: both publishes of an iteration failed and the emission was
\* recorded all the same
C18_Witness ==
    /\ pc = "sleep"
    /\ Len(calls) = 7
    /\ calls[2].ret = "MQTTClientError"
    /\ calls[6].ret = "MQTTClientError"
    /\ last_aggregation_time = Some(loop_reading[1].timestamp)
    /\ Len(samples) = 2

\* C19: while reading timestamps do not decrease, an aggregate is handed to
\* publish_aggregated only for a reading at least aggregation_interval
\* seconds after the reading of the previous aggregate.
C19_AggregatesSpacedByInterval ==
    (in_order /\ pc = "publish_aggregated" /\ agg_pub # None) =>
        loop_reading[1].timestamp - agg_pub[1] >= aggregation_interval

\* C19 witness: a second aggregate is about to be published exactly one
\* interval after the first
C19_Witness ==
    /\ in_order
    /\ pc = "publish_aggregated"
    /\ agg_pub # None
    /\ aggregation_interval = MaxInterval
    /\ loop_reading[1].timestamp - agg_pub[1] = MaxInterval

LoopLabels ==
    {"while", "get_cpm", "publish_realtime", "add_reading", "should_publish",
     "get_aggregated", "publish_aggregated", "mark_published", "sleep", "except"}

\* C20: a failure inside an iteration never ends the loop: the exception
\* handler backs off and returns to the loop test, which starts another
\* iteration unless shutdown was requested; the loop is left only from its
\* test and only when shutdown has been requested.
C20_FailureNeverEndsLoop ==
    [][/\ (pc \in LoopLabels /\ pc' \notin LoopLabels) => (pc = "while" /\ shutdown_requested)
       /\ (pc = "except" /\ pc' # pc) => pc' = "while"
       /\ (pc = "while" /\ pc' # pc /\ ~shutdown_requested) => pc' = "get_cpm"]_vars

\* C20 witness: a poll failed after a reading had been taken, with no
\* shutdown requested
C20_Witness ==
    /\ pc = "except"
    /\ reading_count >= 1
    /\ ~shutdown_requested
    /\ calls[1].raised = "GMCDeviceError"

CleanupOrder == <<"publisher.shutdown", "mqtt_client.disconnect", "device.disconnect">>

\* C21: the shutdown flag once set is never cleared; with the flag set the
\* loop test starts no further iteration, so at most the iteration in
\* progress completes; the loop then exits and the finally block attempts
\* publisher.shutdown (availability "offline"), the MQTT disconnect and the
\* device disconnect in that order whether or not one of them raises, and
\* service_mode returns 0.
C21_CooperativeShutdown ==
    /\ [][/\ shutdown_requested => shutdown_requested'
          /\ (pc' = "get_cpm" /\ pc # "get_cpm") => (pc = "while" /\ ~shutdown_requested)
          /\ (shutdown_requested /\ pc = "while" /\ pc' # pc) => pc' = "finally"]_vars
    /\ [](/\ Len(cleanup) <= Len(CleanupOrder)
          /\ \A i \in 1..Len(cleanup) : cleanup[i].name = CleanupOrder[i]
          /\ Len(cleanup) >= 1 => cleanup[1].arg = <<"offline">>
          /\ pc = "return" =>
                (shutdown_requested /\ Len(cleanup) = 3 /\ exit_code = Some(0)))
    /\ (shutdown_requested ~> (pc = "return" /\ exit_code = Some(0)))

\* C21 witness: service_mode returned after readings were taken, the MQTT
\* disconnect having raised
C21_Witness ==
    /\ pc = "return"
    /\ reading_count >= 1
    /\ Len(cleanup) = 3
    /\ cleanup[2].raised = "Exception"
    /\ exit_code = Some(0)

Metrics == {"cpm", "radiation", "cpm_avg", "radiation_avg"}

MetricTopics ==
    {<<homeassistant_prefix, "sensor", device_id, metric, "config">> : metric \in Metrics}

Accepted(from, to) == \A i \in from..to : calls[i].ret = "published"

\* C22: publish_discovery publishes exactly one retained descriptor for each
\* of the four metrics, remove_discovery publishes an empty retained message
\* to exactly the same four topics, and after a remove_discovery whose
\* messages were all accepted, a publish_discovery before it or not, no
\* topic keeps a non-empty retained descriptor.
C22_DiscoveryRemovedFromSameTopics ==
    LET n == Len(calls)
    IN /\ \A i \in 1..n : calls[i].arg[4] = TRUE
       /\ DOMAIN retained \subseteq MetricTopics
       /\ (pc = "idle" /\ n > 0) =>
             /\ n = 4
             /\ {calls[i].arg[1] : i \in 1..4} = MetricTopics
             /\ calls[1].name # "remove_discovery" =>
                   \A i \in 1..4 : calls[i].arg[2] # empty_payload
             /\ calls[1].name = "remove_discovery" =>
                   \A i \in 1..4 : calls[i].arg[2] = empty_payload
             /\ (calls[1].name = "remove_discovery" /\ Accepted(1, 4)) =>
                   \A topic \in DOMAIN retained : retained[topic] = empty_payload

\* C22 witness: all four descriptors were retained and remove_discovery,
\* every message of it accepted so far, has one left to remove
C22_Witness ==
    /\ pc = "remove_discovery"
    /\ Len(calls) = 3
    /\ Accepted(1, 3)
    /\ DOMAIN retained = MetricTopics
    /\ \A i \in 1..3 : retained[calls[i].arg[1]] = empty_payload
    /\ \E topic \in MetricTopics : retained[topic] # empty_payload

\* C23: MQTTClient.publish raises MQTTClientError whenever the client is not
\* connected or the publish fails, a result code other than success included:
\* it returns normally only when the message was accepted.
C23_PublishRaisesUnlessAccepted ==
    \A i \in 1..Len(calls) :
        calls[i].ret # "MQTTClientError" => calls[i].ret = "published"

\* a / b = c / d, for fractions with positive denominators
FractionEq(x, y) == x.num * y.den = y.num * x.den

\* C24: to_usv_per_hour(factor) is cpm x factor for every count and factor,
\* and the usv_h_avg of an aggregate is cpm_avg x conversion_factor, neither
\* rounded: count 100 with factor 0.01 gives 1.0.
C24_ConversionIsProduct ==
    /\ op.name = "to_usv_per_hour" =>
          /\ "raised" \notin DOMAIN op
          /\ op.ret.num * op.conversion_factor.den
                = op.reading.cpm * op.conversion_factor.num * op.ret.den
          /\ (op.reading.cpm = 100 /\ FractionEq(op.conversion_factor, [num |-> 1, den |-> 100])) =>
                FractionEq(op.ret, [num |-> 1, den |-> 1])
    /\ (op.name = "get_aggregated" /\ op.ret # None) =>
          LET result == op.ret[1]
          IN /\ result.usv_h_avg.num * result.cpm_avg.den * FactorDen
                   = result.cpm_avg.num * FactorNum * result.usv_h_avg.den
             /\ result.cpm_avg.num = CountSum(Len(samples))
             /\ result.cpm_avg.den = Len(samples)

\* C24 witness: a count of 1 was converted with the default factor, which
\* rounding to fewer decimals would change
C24_Witness ==
    /\ op.name = "to_usv_per_hour"
    /\ op.reading.cpm = 1
    /\ op.conversion_factor = [num |-> FactorNum, den |-> FactorDen]
    /\ FractionEq(op.ret, [num |-> 65, den |-> 10000])

\* the steps between the four combinations of window empty / non-empty and
\* gate never / emitted: each axis can be changed from either value of the other
AxesSteps(windows_that_fill) ==
    /\ (samples = <<>> /\ window_seconds \in windows_that_fill) =>
          ENABLED (add_reading(Reading(0, 0)) /\ samples' # <<>>
                      /\ last_aggregation_time' = last_aggregation_time)
    /\ last_aggregation_time = None =>
          ENABLED (mark_published(0) /\ last_aggregation_time' # None /\ samples' = samples)
    /\ (samples # <<>> \/ last_aggregation_time # None) =>
          ENABLED (clear /\ samples' = <<>> /\ last_aggregation_time' = None)

\* C25 (as stated): window empty / non-empty and gate never / emitted are
\* independent: from the initial state of any engine all four combinations
\* can be reached, and from each of them an operation leads to another one.
C25_FourCombinationsReachable == AxesSteps(Windows)

\* C25 (amended): for an engine constructed with window_seconds >= 0 all four
\* combinations are reachable (add_reading fills an empty window whatever the
\* gate, mark_published sets a gate never set whatever the window) and none
\* is terminal; with a negative window_seconds every ingested sample is
\* evicted at once, so only the two combinations with an empty window occur,
\* neither of them terminal.
C25_FourCombinationsReachableFromZero ==
    /\ AxesSteps({w \in Windows : w >= 0})
    /\ window_seconds < 0 => samples = <<>>

\* C25 witness: a window filled after the gate was set, on an engine of
\* window_seconds 0
C25_Witness ==
    /\ op.name = "add_reading"
    /\ window_seconds = 0
    /\ samples # <<>>
    /\ last_aggregation_time # None

\* C26: add_reading never rejects or reorders a sample: the buffer after the
\* call is the buffer before it with the sample appended, less the entries
\* evicted from the front; with window_seconds >= 0 the sample ingested is
\* the last entry after the call, so the window is then non-empty, and a
\* non-empty window becomes empty only by clear().
C26_IngestAppendsAtEnd ==
    [][/\ op'.name = "add_reading" =>
             LET appended == Append(samples, op'.reading)
             IN /\ op'.removed \in 0..Len(appended)
                /\ samples' = SubSeq(appended, op'.removed + 1, Len(appended))
                /\ window_seconds >= 0 =>
                      (samples' # <<>> /\ samples'[Len(samples')] = op'.reading)
       /\ (samples # <<>> /\ samples' = <<>>) => op'.name = "clear"]_vars

\* C26 witness: a sample earlier than the one before it is the last entry
C26_Witness ==
    /\ op.name = "add_reading"
    /\ Len(samples) >= 2
    /\ samples[Len(samples)] = op.reading
    /\ samples[Len(samples)].timestamp < samples[Len(samples) - 1].timestamp

\* C27: while samples are ingested with non-decreasing timestamps the buffer
\* is sorted by timestamp from front to back in every state, and
\* get_window_age is then between zero and window_seconds inclusive.
C27_SortedAndAgeWithinWindow ==
    /\ \A i \in 1..(Len(samples) - 1) : samples[i].timestamp <= samples[i + 1].timestamp
    /\ samples # <<>> =>
          LET age == samples[Len(samples)].timestamp - samples[1].timestamp
          IN 0 <= age /\ age <= window_seconds
    /\ (op.name = "get_window_age" /\ op.ret # None) =>
          (0 <= op.ret[1] /\ op.ret[1] <= window_seconds)

\* C27 witness: the age asked for is exactly window_seconds, two of the
\* samples held having the same timestamp
C27_Witness ==
    /\ op.name = "get_window_age"
    /\ Len(samples) = 3
    /\ samples[1].timestamp = samples[2].timestamp
    /\ op.ret = Some(window_seconds)
    /\ window_seconds = MaxWindow

\* C28: every sample held in the window has cpm >= 0 in every state, and
\* every aggregate returned by get_aggregated satisfies
\* 0 <= cpm_min <= cpm_avg <= cpm_max.
C28_CountsAndStatisticsOrdered ==
    /\ \A i \in 1..Len(samples) : samples[i].cpm >= 0
    /\ (op.name = "get_aggregated" /\ op.ret # None) =>
          LET result == op.ret[1]
          IN /\ 0 <= result.cpm_min
             /\ result.cpm_avg.den > 0
             /\ result.cpm_min * result.cpm_avg.den <= result.cpm_avg.num
             /\ result.cpm_avg.num <= result.cpm_max * result.cpm_avg.den

\* C28 witness: an aggregate whose minimum, average and maximum all differ,
\* taken after a negative count was refused
C28_Witness ==
    /\ op.name = "get_aggregated"
    /\ op.ret # None
    /\ op.ret[1].cpm_min = 0
    /\ op.ret[1].cpm_max = 3
    /\ op.ret[1].sample_count = 3
    /\ op.ret[1].cpm_avg.num = 3

\* C29: an AggregatedReading returned by get_aggregated is a snapshot: it
\* carries the samples the deque held at the call, and a later add_reading,
\* mark_published or clear changes neither its statistics nor its samples.
C29_AggregateIsSnapshot ==
    [][/\ op'.name = "get_aggregated" =>
              /\ aggregated' = aggregate(samples, window_seconds)
              /\ aggregated' # None => aggregated'[1].samples = samples
       /\ op'.name \in {"add_reading", "mark_published", "clear"} =>
              aggregated' = aggregated]_vars

\* C29 witness: the caller holds an aggregate of two samples, the gate has
\* been marked and a later add_reading has changed the deque
C29_Witness ==
    /\ aggregated # None
    /\ Len(aggregated[1].samples) = 2
    /\ op.name = "add_reading"
    /\ last_aggregation_time # None
    /\ samples # aggregated[1].samples

\* the aggregate step of the iteration in progress: once should_publish has
\* returned True, get_aggregated returns a result whose newest sample is the
\* reading just polled, publish_aggregated is called with it and the gate is
\* marked with the reading's timestamp before the iteration sleeps; the
\* iteration of the first successful poll ends with an aggregate of one sample
AggregateStep ==
    LET n == Len(calls)
    IN /\ n >= 5 =>
             /\ calls[5].name = "get_aggregated"
             /\ calls[5].ret # None
             /\ LET result == calls[5].ret[1]
                IN result.samples[Len(result.samples)] = loop_reading[1]
       /\ (n >= 4 /\ calls[4].ret = TRUE /\ pc \in {"sleep", "while"}) =>
             /\ n = 7
             /\ calls[6].name = "publish_aggregated"
             /\ calls[6].arg = calls[5].ret
             /\ calls[7].name = "mark_published"
             /\ last_aggregation_time = Some(loop_reading[1].timestamp)
       /\ (n >= 4 /\ reading_count = 1 /\ pc \in {"sleep", "while"}) =>
             /\ n = 7
             /\ calls[5].ret # None
             /\ calls[5].ret[1].sample_count = 1

\* C30: in the service loop the aggregate step never sees an empty window:
\* whenever should_publish is True in an iteration, get_aggregated returns a
\* result that includes the reading just polled, an aggregate publish is
\* attempted and the gate is marked; the first successful poll after start-up
\* always emits an aggregate, with sample_count = 1.
C30_AggregateStepNeverEmpty == AggregateStep

\* C30, with the window that makes it hold: the same, in a service whose
\* aggregation window is not negative.
C30_AggregateStepNeverEmptyFromZero == window_seconds >= 0 => AggregateStep

\* C30 witness: the second poll of a service with a one-second interval and
\* a non-negative window has emitted an aggregate of two samples
C30_Witness ==
    /\ window_seconds >= 0
    /\ aggregation_interval = 1
    /\ reading_count = 2
    /\ pc = "sleep"
    /\ Len(calls) = 7
    /\ calls[5].ret[1].sample_count = 2
    /\ calls[5].ret[1].samples[2] = loop_reading[1]
    /\ last_aggregation_time = Some(loop_reading[1].timestamp)

\* C31: in the service loop the gate is marked exactly when an aggregate
\* publish was attempted, and with the same timestamp: outside the two steps
\* between get_aggregated and mark_published, the last-emission time is None
\* while no aggregate has been attempted and otherwise equals the timestamp
\* field of the aggregate attempted last; it is marked whatever the outcome
\* of that publish, and an aggregate is produced only for a reading at least
\* aggregation_interval after the marked time.
C31_GateMarkedWithAttemptedAggregate ==
    LET n == Len(calls)
    IN /\ pc \notin {"publish_aggregated", "mark_published"} =>
             IF agg_pub = None THEN last_aggregation_time = None
             ELSE /\ aggregated # None
                  /\ last_aggregation_time = Some(aggregated[1].timestamp)
       /\ n >= 6 =>
             /\ calls[6].name = "publish_aggregated"
             /\ calls[6].arg = aggregated
             /\ agg_pub = Some(aggregated[1].timestamp)
       /\ n = 7 =>
             /\ calls[7].name = "mark_published"
             /\ calls[7].arg = <<calls[6].arg[1].timestamp>>
             /\ last_aggregation_time = Some(calls[6].arg[1].timestamp)
       /\ (pc \in {"get_aggregated", "publish_aggregated"} /\ last_aggregation_time # None) =>
             loop_reading[1].timestamp - last_aggregation_time[1] >= aggregation_interval

\* C31 witness: the aggregate of the second poll could not be published, the
\* gate carries its timestamp all the same
C31_Witness ==
    /\ reading_count = 2
    /\ pc = "sleep"
    /\ Len(calls) = 7
    /\ calls[6].ret = "MQTTClientError"
    /\ calls[6].arg[1].sample_count = 2
    /\ last_aggregation_time = Some(calls[6].arg[1].timestamp)

\* C38: get_cpm decodes the 4 response bytes as a big-endian unsigned 32-bit
\* integer, b0*2^24 + b1*2^16 + b2*2^8 + b3 = (b0*2^8 + b1)*2^16 + (b2*2^8 + b3),
\* so the count is in 0 .. 2^32 - 1 and constructing the Reading from a
\* complete response never fails the non-negative check.
C38_BigEndianUnsigned ==
    (op.name = "get_cpm" /\ op.data # <<>>) =>
        /\ op.raised = "none"
        /\ op.ret # None
        /\ LET cpm == op.ret[1].cpm
               b == op.data
           IN /\ cpm.hi = b[1] * 256 + b[2]
              /\ cpm.lo = b[3] * 256 + b[4]
              /\ 0 <= cpm.hi /\ cpm.hi <= 65535
              /\ 0 <= cpm.lo /\ cpm.lo <= 65535

\* C38 witness: the response ff 80 00 ff was decoded to a count above 2^31
C38_Witness ==
    /\ op.name = "get_cpm"
    /\ op.data = <<255, 128, 0, 255>>
    /\ op.ret # None
    /\ op.ret[1].cpm = [hi |-> 65408, lo |-> 255]

\* C32: when the poll fails in a service-loop iteration, that iteration
\* produces no reading: get_cpm is its only call, nothing is published or
\* ingested, the last-emission time and the reading counter stay as they
\* were, and the handler leads back to the loop test; get_cpm on a device
\* that is not connected raises GMCConnectionError and writes no command.
C32_FailedPollProducesNothing ==
    /\ []((calls # <<>> /\ calls[1].name = "get_cpm" /\ calls[1].raised # "none") =>
              /\ Len(calls) = 1
              /\ calls[1].ret = None
              /\ pc \in {"except", "while"})
    /\ [][(pc = "get_cpm" /\ pc' # pc /\ calls'[1].raised # "none") =>
              /\ pc' = "except"
              /\ UNCHANGED <<engine, reading_count, loop_reading, aggregated, agg_pub,
                             retained>>]_vars
    /\ [][(pc = "except" /\ pc' # pc) =>
              /\ pc' = "while"
              /\ UNCHANGED <<engine, reading_count, loop_reading, aggregated, agg_pub,
                             retained, calls>>]_vars
    /\ []((op.name = "get_cpm" /\ ~op.is_connected) =>
              /\ op.raised = "GMCConnectionError"
              /\ op.written = <<>>
              /\ op.ret = None)

\* C32 witness: the second poll of the service loop failed after the first
\* had been ingested and had marked the gate
C32_Witness ==
    /\ pc = "except"
    /\ reading_count = 1
    /\ calls = <<Call("get_cpm", <<>>, None, "GMCDeviceError")>>
    /\ Len(samples) = 1
    /\ last_aggregation_time = Some(loop_reading[1].timestamp)

\* where test_device_reading is while its while True loop runs
TestLoopLabels == {"get_cpm", "log", "sleep", "except"}

\* C33: in test mode as started by main(), an interrupt signal makes the
\* continuous reading loop stop eventually and test_device_reading return
\* exit code 0. Stated here is what that needs first, however the function
\* returns: once the signal has been delivered, the loop is eventually left.
C33_InterruptStopsTestMode ==
    (shutdown_requested /\ pc \in TestLoopLabels) ~> (pc \notin TestLoopLabels)


\* C34: the connected flag is False while the MQTT client has no running
\* network loop (before connect and after disconnect()), and every message
\* that publish handed to the paho client was handed while the flag was
\* True, however the callbacks of the network thread fall between the
\* statements of publish
C34_PublishHandsOnlyWhileConnected ==
    /\ (client = None \/ ~client[1].loop) => ~connected
    /\ \A i \in 1..Len(calls) : calls[i].name = "_client.publish" => calls[i].flag


\* C36: once the last will is registered, its topic is the availability
\* topic of the publisher, and every discovery descriptor the broker holds
\* names that same topic as its availability_topic, for a device with a
\* serial number and for one without
C36_WillOnAvailabilityTopic ==
    will # None =>
        /\ will[1].payload = "offline"
        /\ will[1].topic = availability_topic
        /\ \A t \in DOMAIN retained :
              (t[2] = "sensor" /\ retained[t] # empty_payload) =>
                  retained[t][1].availability_topic = will[1].topic


\* C35: MQTTClient.connect starts its wait with the flag False, the flag is
\* raised only by an _on_connect with result code 0, and connect returns
\* normally only when its last check finds the flag True; a refused
\* connection and a check that finds the flag False raise MQTTClientError,
\* after which service_mode constructs no publisher, publishes nothing (not
\* even "offline" in the finally block) and returns 1
C35_ConnectReturnsOnlyWhenAccepted ==
    /\ [][/\ (pc = "mqtt_client.connect" /\ pc' = "connect: wait") => ~connected'
          /\ (~connected /\ connected') => on_connect(0)
          /\ (pc = "connect: check" /\ pc' = "MQTTPublisher") =>
                 connected /\ op'.raised = "none"
          /\ (pc = "connect: check" /\ pc' # pc /\ ~connected) =>
                 pc' = "except Exception" /\ op'.raised = "MQTTClientError"
          /\ (pc = "mqtt_client.connect" /\ pc' \notin {pc, "connect: wait"}) =>
                 pc' = "except Exception" /\ op'.raised = "MQTTClientError"
          /\ (pc = "except Exception" /\ pc' # pc) => pc' = "finally" /\ returning' = Some(1)
         ]_vars
    /\ [](returning # None =>
            /\ publisher = None
            /\ calls = <<>>
            /\ retained = <<>>
            /\ \A i \in 1..Len(cleanup) : cleanup[i].name # "publisher.shutdown")
    /\ []((pc = "return" /\ returning # None) => exit_code = Some(1))

\* the broker never answered within the wait: connect raised, the finally
\* block stopped the network loop, and service_mode returned 1
C35_Witness ==
    /\ pc = "return"
    /\ exit_code = Some(1)
    /\ mqtt_client # None
    /\ client = Some([loop |-> FALSE])
    /\ Len(cleanup) = 2


\* the statements of service_mode before its main loop
StartupLabels == {"GMCDevice", "MQTTClient", "mqtt_client.connect", "connect: wait",
                  "connect: check", "except Exception", "MQTTPublisher",
                  "publish_availability", "publish_device_info", "homeassistant_discovery",
                  "_publish_cpm_sensor", "_publish_radiation_sensor",
                  "_publish_avg_cpm_sensor", "_publish_avg_radiation_sensor", "idle",
                  "MovingAverageAggregator"}

\* the publish calls of start-up, in the order of the code
StartupOrder == <<"publish_availability", "publish_device_info",
                  "_publish_cpm_sensor", "_publish_radiation_sensor",
                  "_publish_avg_cpm_sensor", "_publish_avg_radiation_sensor">>

\* start-up has called publish_availability(online=True) and then
\* publish_device_info, in that order and before any other publish
announced ==
    /\ Len(calls) >= 2
    /\ calls[1].name = "publish_availability"
    /\ calls[1].arg = <<availability_topic, Some("online"), 1, TRUE>>
    /\ calls[2].name = "publish_device_info"

\* C37: in service mode the publish calls come in this order: availability
\* "online", then the device info, then the discovery descriptors (when
\* enabled), all before the main loop is entered; realtime and aggregate
\* readings are published only inside the main loop, never once the finally
\* block has begun; and the finally block publishes availability "offline"
\* first and only then disconnects the MQTT client
C37_AvailabilityBracketsData ==
    /\ [](pc \in StartupLabels =>
            /\ Len(calls) <= Len(StartupOrder)
            /\ \A i \in 1..Len(calls) : calls[i].name = StartupOrder[i])
    /\ [][/\ (Len(calls') > Len(calls) /\ pc \in StartupLabels
                /\ calls'[Len(calls')].name \notin {"publish_availability", "publish_device_info"})
               => announced
          /\ (pc \in StartupLabels /\ pc' = "while") => announced
          /\ (Len(calls') > Len(calls)
                /\ calls'[Len(calls')].name \in {"publish_realtime", "publish_aggregated"})
               => (pc \notin StartupLabels /\ cleanup = <<>> /\ pc' # "finally")
          /\ (pc = "finally" /\ pc' # pc /\ publisher # None)
               => (/\ cleanup = <<>>
                   /\ Len(cleanup') = 1
                   /\ cleanup'[1].name = "publisher.shutdown"
                   /\ cleanup'[1].arg = <<"offline">>
                   /\ client = Some([loop |-> TRUE]))
          /\ (client = Some([loop |-> TRUE]) /\ client' # client /\ publisher # None)
               => (Len(cleanup) = 1 /\ cleanup[1].name = "publisher.shutdown")
         ]_vars

\* a whole run: discovery was published, a reading was published, the
\* finally block ran and service_mode returned 0
C37_Witness ==
    /\ pc = "return"
    /\ exit_code = Some(0)
    /\ reading_count > 0
    /\ discovery_topic("cpm") \in DOMAIN retained
    /\ availability_topic \in DOMAIN retained
    /\ Len(cleanup) = 3

====
